---- MODULE Spec2Model ----
\* A model of tslox, a tree-walking interpreter for Lox written in TypeScript:
\* the driver (run / runFile), the Lexer, the Parser, the Resolver and the
\* Interpreter with its runtime objects (Environment, LoxFunction, LoxClass,
\* LoxInstance).  One behaviour of the model is one run of the driver in file
\* mode on one source text.  The lexer advances one scanToken per step, the
\* parser and the resolver run as one step each, and the interpreter executes
\* one top-level statement per step (the iterations of Interpreter.interpret).
EXTENDS Integers, Sequences, FiniteSets, TLC

VARIABLES
  source,           \* the characters of the source file
  pc,               \* the driver's position
  lexer,            \* the Lexer object: tokens, start, current, line
  tokens,           \* what Lexer.scanTokens returned
  statements,       \* what Parser.parse returned
  interp,           \* the Interpreter object, with the heap of runtime objects
  index,            \* the number of top-level statements interpret has executed
  lastValue,        \* the value of the last executed top-level statement
  hadError,         \* the driver's hadError
  hadRuntimeError,  \* the driver's hadRuntimeError
  stdout,           \* the lines written by console.log
  stderr,           \* the lines written by console.error
  exitCode          \* the process's exit code, -1 while it runs

vars ==
  <<source, pc, lexer, tokens, statements, interp, index, lastValue,
    hadError, hadRuntimeError, stdout, stderr, exitCode>>

\* ---------------------------------------------------------------- sources
\* Each source is the tuple of the characters of a Lox program.

\* ---- sources: begin ----
\*     var s = nil;
\*     class C < s {}
\*     print C;
SrcSuperNil ==
  <<"v", "a", "r", " ", "s", " ", "=", " ", "n", "i", "l", ";", "\n", "c", "l", "a",
     "s", "s", " ", "C", " ", "<", " ", "s", " ", "{", "}", "\n", "p", "r", "i", "n",
     "t", " ", "C", ";">>

\*     var s = false;
\*     class C < s {}
\*     print C;
SrcSuperFalse ==
  <<"v", "a", "r", " ", "s", " ", "=", " ", "f", "a", "l", "s", "e", ";", "\n", "c",
     "l", "a", "s", "s", " ", "C", " ", "<", " ", "s", " ", "{", "}", "\n", "p", "r",
     "i", "n", "t", " ", "C", ";">>

\*     var s = 0;
\*     class C < s {}
\*     print C;
SrcSuperZero ==
  <<"v", "a", "r", " ", "s", " ", "=", " ", "0", ";", "\n", "c", "l", "a", "s", "s",
     " ", "C", " ", "<", " ", "s", " ", "{", "}", "\n", "p", "r", "i", "n", "t", " ",
     "C", ";">>

\*     var s = "";
\*     class C < s {}
\*     print C;
SrcSuperEmpty ==
  <<"v", "a", "r", " ", "s", " ", "=", " ", "\"", "\"", ";", "\n", "c", "l", "a", "s",
     "s", " ", "C", " ", "<", " ", "s", " ", "{", "}", "\n", "p", "r", "i", "n", "t",
     " ", "C", ";">>

\*     var s = true;
\*     class C < s {}
\*     print C;
SrcSuperTrue ==
  <<"v", "a", "r", " ", "s", " ", "=", " ", "t", "r", "u", "e", ";", "\n", "c", "l",
     "a", "s", "s", " ", "C", " ", "<", " ", "s", " ", "{", "}", "\n", "p", "r", "i",
     "n", "t", " ", "C", ";">>

\*     var s = 1;
\*     class C < s {}
\*     print C;
SrcSuperOne ==
  <<"v", "a", "r", " ", "s", " ", "=", " ", "1", ";", "\n", "c", "l", "a", "s", "s",
     " ", "C", " ", "<", " ", "s", " ", "{", "}", "\n", "p", "r", "i", "n", "t", " ",
     "C", ";">>

\*     var s = "s";
\*     class C < s {}
\*     print C;
SrcSuperString ==
  <<"v", "a", "r", " ", "s", " ", "=", " ", "\"", "s", "\"", ";", "\n", "c", "l", "a",
     "s", "s", " ", "C", " ", "<", " ", "s", " ", "{", "}", "\n", "p", "r", "i", "n",
     "t", " ", "C", ";">>

\*     fun s() {}
\*     class C < s {}
\*     print C;
SrcSuperFunction ==
  <<"f", "u", "n", " ", "s", "(", ")", " ", "{", "}", "\n", "c", "l", "a", "s", "s",
     " ", "C", " ", "<", " ", "s", " ", "{", "}", "\n", "p", "r", "i", "n", "t", " ",
     "C", ";">>

\*     class A {}
\*     var s = A();
\*     class C < s {}
\*     print C;
SrcSuperInstance ==
  <<"c", "l", "a", "s", "s", " ", "A", " ", "{", "}", "\n", "v", "a", "r", " ", "s",
     " ", "=", " ", "A", "(", ")", ";", "\n", "c", "l", "a", "s", "s", " ", "C", " ",
     "<", " ", "s", " ", "{", "}", "\n", "p", "r", "i", "n", "t", " ", "C", ";">>

\*     class A { m() { return 1; } }
\*     class C < A { m() { return super.m() + 1; } }
\*     print C().m();
\*     class D {}
\*     print D;
SrcSuperClass ==
  <<"c", "l", "a", "s", "s", " ", "A", " ", "{", " ", "m", "(", ")", " ", "{", " ",
     "r", "e", "t", "u", "r", "n", " ", "1", ";", " ", "}", " ", "}", "\n", "c", "l",
     "a", "s", "s", " ", "C", " ", "<", " ", "A", " ", "{", " ", "m", "(", ")", " ",
     "{", " ", "r", "e", "t", "u", "r", "n", " ", "s", "u", "p", "e", "r", ".", "m",
     "(", ")", " ", "+", " ", "1", ";", " ", "}", " ", "}", "\n", "p", "r", "i", "n",
     "t", " ", "C", "(", ")", ".", "m", "(", ")", ";", "\n", "c", "l", "a", "s", "s",
     " ", "D", " ", "{", "}", "\n", "p", "r", "i", "n", "t", " ", "D", ";">>

\*     {
\*       class A {}
\*       class B < A {}
\*       var x = 1;
\*       print x;
\*     }
SrcBlockClass ==
  <<"{", "\n", " ", " ", "c", "l", "a", "s", "s", " ", "A", " ", "{", "}", "\n", " ",
     " ", "c", "l", "a", "s", "s", " ", "B", " ", "<", " ", "A", " ", "{", "}", "\n",
     " ", " ", "v", "a", "r", " ", "x", " ", "=", " ", "1", ";", "\n", " ", " ", "p",
     "r", "i", "n", "t", " ", "x", ";", "\n", "}">>

\*     fun f() {
\*       class B {}
\*       var x = B();
\*       return x;
\*     }
\*     print f();
SrcFunctionClass ==
  <<"f", "u", "n", " ", "f", "(", ")", " ", "{", "\n", " ", " ", "c", "l", "a", "s",
     "s", " ", "B", " ", "{", "}", "\n", " ", " ", "v", "a", "r", " ", "x", " ", "=",
     " ", "B", "(", ")", ";", "\n", " ", " ", "r", "e", "t", "u", "r", "n", " ", "x",
     ";", "\n", "}", "\n", "p", "r", "i", "n", "t", " ", "f", "(", ")", ";">>

\*     {
\*       var s;
\*       class C < s {}
\*       var x = 1;
\*       print x;
\*     }
\*     print 2;
SrcBlockSuperNil ==
  <<"{", "\n", " ", " ", "v", "a", "r", " ", "s", ";", "\n", " ", " ", "c", "l", "a",
     "s", "s", " ", "C", " ", "<", " ", "s", " ", "{", "}", "\n", " ", " ", "v", "a",
     "r", " ", "x", " ", "=", " ", "1", ";", "\n", " ", " ", "p", "r", "i", "n", "t",
     " ", "x", ";", "\n", "}", "\n", "p", "r", "i", "n", "t", " ", "2", ";">>

\*     fun f(s) {
\*       class C < s {}
\*       var x = 1;
\*       return x;
\*     }
\*     print f(false);
SrcFunctionSuperFalse ==
  <<"f", "u", "n", " ", "f", "(", "s", ")", " ", "{", "\n", " ", " ", "c", "l", "a",
     "s", "s", " ", "C", " ", "<", " ", "s", " ", "{", "}", "\n", " ", " ", "v", "a",
     "r", " ", "x", " ", "=", " ", "1", ";", "\n", " ", " ", "r", "e", "t", "u", "r",
     "n", " ", "x", ";", "\n", "}", "\n", "p", "r", "i", "n", "t", " ", "f", "(", "f",
     "a", "l", "s", "e", ")", ";">>

\*     var s;
\*     class C < s {}
\*     var x = 1;
\*     print x;
SrcTopSuperNil ==
  <<"v", "a", "r", " ", "s", ";", "\n", "c", "l", "a", "s", "s", " ", "C", " ", "<",
     " ", "s", " ", "{", "}", "\n", "v", "a", "r", " ", "x", " ", "=", " ", "1", ";",
     "\n", "p", "r", "i", "n", "t", " ", "x", ";">>

\*     fun f(x) {
\*       {
\*         if (x) return 1;
\*       }
\*       {
\*         var y = 2;
\*         print y;
\*       }
\*       return nil + 1;
\*     }
\*     {
\*       print f(true);
\*       {
\*         f(false);
\*       }
\*     }
SrcExits ==
  <<"f", "u", "n", " ", "f", "(", "x", ")", " ", "{", "\n", " ", " ", "{", "\n", " ",
     " ", " ", " ", "i", "f", " ", "(", "x", ")", " ", "r", "e", "t", "u", "r", "n",
     " ", "1", ";", "\n", " ", " ", "}", "\n", " ", " ", "{", "\n", " ", " ", " ", " ",
     "v", "a", "r", " ", "y", " ", "=", " ", "2", ";", "\n", " ", " ", " ", " ", "p",
     "r", "i", "n", "t", " ", "y", ";", "\n", " ", " ", "}", "\n", " ", " ", "r", "e",
     "t", "u", "r", "n", " ", "n", "i", "l", " ", "+", " ", "1", ";", "\n", "}", "\n",
     "{", "\n", " ", " ", "p", "r", "i", "n", "t", " ", "f", "(", "t", "r", "u", "e",
     ")", ";", "\n", " ", " ", "{", "\n", " ", " ", " ", " ", "f", "(", "f", "a", "l",
     "s", "e", ")", ";", "\n", " ", " ", "}", "\n", "}">>

\*     fun g(n) {
\*       while (true) {
\*         if (n < 1) { return n; }
\*         n = n - 1;
\*       }
\*     }
\*     { print g(2); }
\*     print g(0);
SrcLoopReturn ==
  <<"f", "u", "n", " ", "g", "(", "n", ")", " ", "{", "\n", " ", " ", "w", "h", "i",
     "l", "e", " ", "(", "t", "r", "u", "e", ")", " ", "{", "\n", " ", " ", " ", " ",
     "i", "f", " ", "(", "n", " ", "<", " ", "1", ")", " ", "{", " ", "r", "e", "t",
     "u", "r", "n", " ", "n", ";", " ", "}", "\n", " ", " ", " ", " ", "n", " ", "=",
     " ", "n", " ", "-", " ", "1", ";", "\n", " ", " ", "}", "\n", "}", "\n", "{", " ",
     "p", "r", "i", "n", "t", " ", "g", "(", "2", ")", ";", " ", "}", "\n", "p", "r",
     "i", "n", "t", " ", "g", "(", "0", ")", ";">>

\*     nil();
SrcCallNil ==
  <<"n", "i", "l", "(", ")", ";">>

\*     true();
SrcCallTrue ==
  <<"t", "r", "u", "e", "(", ")", ";">>

\*     1();
SrcCallNumber ==
  <<"1", "(", ")", ";">>

\*     "s"();
SrcCallString ==
  <<"\"", "s", "\"", "(", ")", ";">>

\*     class A {}
\*     var a = A();
\*     print 1;
\*     a();
SrcCallInstance ==
  <<"c", "l", "a", "s", "s", " ", "A", " ", "{", "}", "\n", "v", "a", "r", " ", "a",
     " ", "=", " ", "A", "(", ")", ";", "\n", "p", "r", "i", "n", "t", " ", "1", ";",
     "\n", "a", "(", ")", ";">>

\*     var f;
\*     print 1;
\*     f(2);
SrcCallNilVar ==
  <<"v", "a", "r", " ", "f", ";", "\n", "p", "r", "i", "n", "t", " ", "1", ";", "\n",
     "f", "(", "2", ")", ";">>

\*     class A { m() { super.m(); } }
\*     print 1;
SrcSuperNoClause ==
  <<"c", "l", "a", "s", "s", " ", "A", " ", "{", " ", "m", "(", ")", " ", "{", " ",
     "s", "u", "p", "e", "r", ".", "m", "(", ")", ";", " ", "}", " ", "}", "\n", "p",
     "r", "i", "n", "t", " ", "1", ";">>

\*     class A { m() { super.m(); } }
\*     A().m();
SrcSuperNoClauseCall ==
  <<"c", "l", "a", "s", "s", " ", "A", " ", "{", " ", "m", "(", ")", " ", "{", " ",
     "s", "u", "p", "e", "r", ".", "m", "(", ")", ";", " ", "}", " ", "}", "\n", "A",
     "(", ")", ".", "m", "(", ")", ";">>

\*     super.m();
SrcSuperOutside ==
  <<"s", "u", "p", "e", "r", ".", "m", "(", ")", ";">>

\*     fun make() {
\*       var i = 0;
\*       fun inc() { i = i + 1; return i; }
\*       return inc;
\*     }
\*     var c = make();
\*     print c();
\*     print c();
\*     print c();
SrcCounter ==
  <<"f", "u", "n", " ", "m", "a", "k", "e", "(", ")", " ", "{", "\n", " ", " ", "v",
     "a", "r", " ", "i", " ", "=", " ", "0", ";", "\n", " ", " ", "f", "u", "n", " ",
     "i", "n", "c", "(", ")", " ", "{", " ", "i", " ", "=", " ", "i", " ", "+", " ",
     "1", ";", " ", "r", "e", "t", "u", "r", "n", " ", "i", ";", " ", "}", "\n", " ",
     " ", "r", "e", "t", "u", "r", "n", " ", "i", "n", "c", ";", "\n", "}", "\n", "v",
     "a", "r", " ", "c", " ", "=", " ", "m", "a", "k", "e", "(", ")", ";", "\n", "p",
     "r", "i", "n", "t", " ", "c", "(", ")", ";", "\n", "p", "r", "i", "n", "t", " ",
     "c", "(", ")", ";", "\n", "p", "r", "i", "n", "t", " ", "c", "(", ")", ";">>

\*     fun make() {
\*       var i = 0;
\*       fun inc() { i = i + 1; return i; }
\*       return inc;
\*     }
\*     var a = make();
\*     var b = make();
\*     print a();
\*     print a();
\*     print b();
SrcTwoCounters ==
  <<"f", "u", "n", " ", "m", "a", "k", "e", "(", ")", " ", "{", "\n", " ", " ", "v",
     "a", "r", " ", "i", " ", "=", " ", "0", ";", "\n", " ", " ", "f", "u", "n", " ",
     "i", "n", "c", "(", ")", " ", "{", " ", "i", " ", "=", " ", "i", " ", "+", " ",
     "1", ";", " ", "r", "e", "t", "u", "r", "n", " ", "i", ";", " ", "}", "\n", " ",
     " ", "r", "e", "t", "u", "r", "n", " ", "i", "n", "c", ";", "\n", "}", "\n", "v",
     "a", "r", " ", "a", " ", "=", " ", "m", "a", "k", "e", "(", ")", ";", "\n", "v",
     "a", "r", " ", "b", " ", "=", " ", "m", "a", "k", "e", "(", ")", ";", "\n", "p",
     "r", "i", "n", "t", " ", "a", "(", ")", ";", "\n", "p", "r", "i", "n", "t", " ",
     "a", "(", ")", ";", "\n", "p", "r", "i", "n", "t", " ", "b", "(", ")", ";">>

\*     fun make() {
\*       var i = 0;
\*       var s;
\*       class C < s {}
\*       fun inc() { i = i + 1; return i; }
\*       return inc;
\*     }
\*     var c = make();
\*     print c();
\*     print c();
\*     print c();
SrcCounterClass ==
  <<"f", "u", "n", " ", "m", "a", "k", "e", "(", ")", " ", "{", "\n", " ", " ", "v",
     "a", "r", " ", "i", " ", "=", " ", "0", ";", "\n", " ", " ", "v", "a", "r", " ",
     "s", ";", "\n", " ", " ", "c", "l", "a", "s", "s", " ", "C", " ", "<", " ", "s",
     " ", "{", "}", "\n", " ", " ", "f", "u", "n", " ", "i", "n", "c", "(", ")", " ",
     "{", " ", "i", " ", "=", " ", "i", " ", "+", " ", "1", ";", " ", "r", "e", "t",
     "u", "r", "n", " ", "i", ";", " ", "}", "\n", " ", " ", "r", "e", "t", "u", "r",
     "n", " ", "i", "n", "c", ";", "\n", "}", "\n", "v", "a", "r", " ", "c", " ", "=",
     " ", "m", "a", "k", "e", "(", ")", ";", "\n", "p", "r", "i", "n", "t", " ", "c",
     "(", ")", ";", "\n", "p", "r", "i", "n", "t", " ", "c", "(", ")", ";", "\n", "p",
     "r", "i", "n", "t", " ", "c", "(", ")", ";">>

\*     var a = "global";
\*     {
\*       var a = "outer";
\*       {
\*         fun show() { print a; }
\*         fun set() { a = "set"; }
\*         show();
\*         var a = "inner";
\*         show();
\*         set();
\*         show();
\*         print a;
\*       }
\*       print a;
\*     }
\*     print a;
SrcShadow ==
  <<"v", "a", "r", " ", "a", " ", "=", " ", "\"", "g", "l", "o", "b", "a", "l", "\"",
     ";", "\n", "{", "\n", " ", " ", "v", "a", "r", " ", "a", " ", "=", " ", "\"", "o",
     "u", "t", "e", "r", "\"", ";", "\n", " ", " ", "{", "\n", " ", " ", " ", " ", "f",
     "u", "n", " ", "s", "h", "o", "w", "(", ")", " ", "{", " ", "p", "r", "i", "n",
     "t", " ", "a", ";", " ", "}", "\n", " ", " ", " ", " ", "f", "u", "n", " ", "s",
     "e", "t", "(", ")", " ", "{", " ", "a", " ", "=", " ", "\"", "s", "e", "t", "\"",
     ";", " ", "}", "\n", " ", " ", " ", " ", "s", "h", "o", "w", "(", ")", ";", "\n",
     " ", " ", " ", " ", "v", "a", "r", " ", "a", " ", "=", " ", "\"", "i", "n", "n",
     "e", "r", "\"", ";", "\n", " ", " ", " ", " ", "s", "h", "o", "w", "(", ")", ";",
     "\n", " ", " ", " ", " ", "s", "e", "t", "(", ")", ";", "\n", " ", " ", " ", " ",
     "s", "h", "o", "w", "(", ")", ";", "\n", " ", " ", " ", " ", "p", "r", "i", "n",
     "t", " ", "a", ";", "\n", " ", " ", "}", "\n", " ", " ", "p", "r", "i", "n", "t",
     " ", "a", ";", "\n", "}", "\n", "p", "r", "i", "n", "t", " ", "a", ";">>

\*     var a = "global";
\*     {
\*       var a = "outer";
\*       {
\*         var s;
\*         class C < s {}
\*         fun show() { print a; }
\*         fun set() { a = "set"; }
\*         show();
\*         var a = "inner";
\*         show();
\*         set();
\*         show();
\*         print a;
\*       }
\*       print a;
\*     }
\*     print a;
SrcShadowClass ==
  <<"v", "a", "r", " ", "a", " ", "=", " ", "\"", "g", "l", "o", "b", "a", "l", "\"",
     ";", "\n", "{", "\n", " ", " ", "v", "a", "r", " ", "a", " ", "=", " ", "\"", "o",
     "u", "t", "e", "r", "\"", ";", "\n", " ", " ", "{", "\n", " ", " ", " ", " ", "v",
     "a", "r", " ", "s", ";", "\n", " ", " ", " ", " ", "c", "l", "a", "s", "s", " ",
     "C", " ", "<", " ", "s", " ", "{", "}", "\n", " ", " ", " ", " ", "f", "u", "n",
     " ", "s", "h", "o", "w", "(", ")", " ", "{", " ", "p", "r", "i", "n", "t", " ",
     "a", ";", " ", "}", "\n", " ", " ", " ", " ", "f", "u", "n", " ", "s", "e", "t",
     "(", ")", " ", "{", " ", "a", " ", "=", " ", "\"", "s", "e", "t", "\"", ";", " ",
     "}", "\n", " ", " ", " ", " ", "s", "h", "o", "w", "(", ")", ";", "\n", " ", " ",
     " ", " ", "v", "a", "r", " ", "a", " ", "=", " ", "\"", "i", "n", "n", "e", "r",
     "\"", ";", "\n", " ", " ", " ", " ", "s", "h", "o", "w", "(", ")", ";", "\n", " ",
     " ", " ", " ", "s", "e", "t", "(", ")", ";", "\n", " ", " ", " ", " ", "s", "h",
     "o", "w", "(", ")", ";", "\n", " ", " ", " ", " ", "p", "r", "i", "n", "t", " ",
     "a", ";", "\n", " ", " ", "}", "\n", " ", " ", "p", "r", "i", "n", "t", " ", "a",
     ";", "\n", "}", "\n", "p", "r", "i", "n", "t", " ", "a", ";">>

\*     var a = "global";
\*     {
\*       fun show() { print a; }
\*       show();
\*       var a = "block";
\*       show();
\*       print a;
\*     }
\*     var a = "again";
\*     print a;
SrcShadowGlobal ==
  <<"v", "a", "r", " ", "a", " ", "=", " ", "\"", "g", "l", "o", "b", "a", "l", "\"",
     ";", "\n", "{", "\n", " ", " ", "f", "u", "n", " ", "s", "h", "o", "w", "(", ")",
     " ", "{", " ", "p", "r", "i", "n", "t", " ", "a", ";", " ", "}", "\n", " ", " ",
     "s", "h", "o", "w", "(", ")", ";", "\n", " ", " ", "v", "a", "r", " ", "a", " ",
     "=", " ", "\"", "b", "l", "o", "c", "k", "\"", ";", "\n", " ", " ", "s", "h", "o",
     "w", "(", ")", ";", "\n", " ", " ", "p", "r", "i", "n", "t", " ", "a", ";", "\n",
     "}", "\n", "v", "a", "r", " ", "a", " ", "=", " ", "\"", "a", "g", "a", "i", "n",
     "\"", ";", "\n", "p", "r", "i", "n", "t", " ", "a", ";">>

\*     class A {
\*       init(x) { this.x = x; if (x) return; this.x = "no"; }
\*     }
\*     class B < A {
\*       init(x) { print super.init(x); }
\*     }
\*     class N {}
\*     var a = A(1);
\*     print a;
\*     print a.init(false);
\*     print a.x;
\*     var b = B(2);
\*     print b;
\*     print b.x;
\*     print N();
SrcInit ==
  <<"c", "l", "a", "s", "s", " ", "A", " ", "{", "\n", " ", " ", "i", "n", "i", "t",
     "(", "x", ")", " ", "{", " ", "t", "h", "i", "s", ".", "x", " ", "=", " ", "x",
     ";", " ", "i", "f", " ", "(", "x", ")", " ", "r", "e", "t", "u", "r", "n", ";",
     " ", "t", "h", "i", "s", ".", "x", " ", "=", " ", "\"", "n", "o", "\"", ";", " ",
     "}", "\n", "}", "\n", "c", "l", "a", "s", "s", " ", "B", " ", "<", " ", "A", " ",
     "{", "\n", " ", " ", "i", "n", "i", "t", "(", "x", ")", " ", "{", " ", "p", "r",
     "i", "n", "t", " ", "s", "u", "p", "e", "r", ".", "i", "n", "i", "t", "(", "x",
     ")", ";", " ", "}", "\n", "}", "\n", "c", "l", "a", "s", "s", " ", "N", " ", "{",
     "}", "\n", "v", "a", "r", " ", "a", " ", "=", " ", "A", "(", "1", ")", ";", "\n",
     "p", "r", "i", "n", "t", " ", "a", ";", "\n", "p", "r", "i", "n", "t", " ", "a",
     ".", "i", "n", "i", "t", "(", "f", "a", "l", "s", "e", ")", ";", "\n", "p", "r",
     "i", "n", "t", " ", "a", ".", "x", ";", "\n", "v", "a", "r", " ", "b", " ", "=",
     " ", "B", "(", "2", ")", ";", "\n", "p", "r", "i", "n", "t", " ", "b", ";", "\n",
     "p", "r", "i", "n", "t", " ", "b", ".", "x", ";", "\n", "p", "r", "i", "n", "t",
     " ", "N", "(", ")", ";">>

\*     return 1;
SrcReturnTop ==
  <<"r", "e", "t", "u", "r", "n", " ", "1", ";">>

\*     class Foo < Foo {}
SrcInheritSelf ==
  <<"c", "l", "a", "s", "s", " ", "F", "o", "o", " ", "<", " ", "F", "o", "o", " ",
     "{", "}">>

\*     { var a = a; }
SrcOwnInitializer ==
  <<"{", " ", "v", "a", "r", " ", "a", " ", "=", " ", "a", ";", " ", "}">>

\*     print this;
SrcThisOutside ==
  <<"p", "r", "i", "n", "t", " ", "t", "h", "i", "s", ";">>

\*     class X { init() { return 1; } }
SrcInitReturnsValue ==
  <<"c", "l", "a", "s", "s", " ", "X", " ", "{", " ", "i", "n", "i", "t", "(", ")",
     " ", "{", " ", "r", "e", "t", "u", "r", "n", " ", "1", ";", " ", "}", " ", "}">>

\*     print 1;
\*     print (2;
\*     print 3;
SrcParseError ==
  <<"p", "r", "i", "n", "t", " ", "1", ";", "\n", "p", "r", "i", "n", "t", " ", "(",
     "2", ";", "\n", "p", "r", "i", "n", "t", " ", "3", ";">>

\*     print 1;
\*     return 1;
SrcResolveAfterPrint ==
  <<"p", "r", "i", "n", "t", " ", "1", ";", "\n", "r", "e", "t", "u", "r", "n", " ",
     "1", ";">>

\*     print 1;@
SrcUnexpectedChar ==
  <<"p", "r", "i", "n", "t", " ", "1", ";", "@">>

\*     print 1;
\*     "ab
SrcUnterminated ==
  <<"p", "r", "i", "n", "t", " ", "1", ";", "\n", "\"", "a", "b">>

\*     print 1 # 2;
SrcUnexpectedOnly ==
  <<"p", "r", "i", "n", "t", " ", "1", " ", "#", " ", "2", ";">>

\*     print 1;
\*     { print 2; print nil - 1; print 3; }
\*     print 4;
SrcErrorThenPrint ==
  <<"p", "r", "i", "n", "t", " ", "1", ";", "\n", "{", " ", "p", "r", "i", "n", "t",
     " ", "2", ";", " ", "p", "r", "i", "n", "t", " ", "n", "i", "l", " ", "-", " ",
     "1", ";", " ", "p", "r", "i", "n", "t", " ", "3", ";", " ", "}", "\n", "p", "r",
     "i", "n", "t", " ", "4", ";">>

\*     print 1 + 2 * 3;
SrcPrintArith ==
  <<"p", "r", "i", "n", "t", " ", "1", " ", "+", " ", "2", " ", "*", " ", "3", ";">>

\*     // a b
\*     print 1;
SrcComment ==
  <<"/", "/", " ", "a", " ", "b", "\n", "p", "r", "i", "n", "t", " ", "1", ";">>

\*     print 1; //
SrcCommentAtEnd ==
  <<"p", "r", "i", "n", "t", " ", "1", ";", " ", "/", "/">>

\*     @ print "a"; #
\*     print "b
SrcLexErrors ==
  <<"@", " ", "p", "r", "i", "n", "t", " ", "\"", "a", "\"", ";", " ", "#", "\n", "p",
     "r", "i", "n", "t", " ", "\"", "b">>

\*     print 1 < 2;
\*     print 2 <= 2;
\*     print 3 < 2;
\*     print nil <= 1;
SrcCompare ==
  <<"p", "r", "i", "n", "t", " ", "1", " ", "<", " ", "2", ";", "\n", "p", "r", "i",
     "n", "t", " ", "2", " ", "<", "=", " ", "2", ";", "\n", "p", "r", "i", "n", "t",
     " ", "3", " ", "<", " ", "2", ";", "\n", "p", "r", "i", "n", "t", " ", "n", "i",
     "l", " ", "<", "=", " ", "1", ";">>

\*     print 2 > 1;
SrcGreater ==
  <<"p", "r", "i", "n", "t", " ", "2", " ", ">", " ", "1", ";">>

\*     print 1 >= 2;
SrcGreaterEqual ==
  <<"p", "r", "i", "n", "t", " ", "1", " ", ">", "=", " ", "2", ";">>

\*     print nil == nil;
SrcEqual ==
  <<"p", "r", "i", "n", "t", " ", "n", "i", "l", " ", "=", "=", " ", "n", "i", "l",
     ";">>

\*     print 1 != "a";
SrcNotEqual ==
  <<"p", "r", "i", "n", "t", " ", "1", " ", "!", "=", " ", "\"", "a", "\"", ";">>

\*     print -3;
\*     print -nil;
\*     print -true;
\*     print -"a";
SrcNegate ==
  <<"p", "r", "i", "n", "t", " ", "-", "3", ";", "\n", "p", "r", "i", "n", "t", " ",
     "-", "n", "i", "l", ";", "\n", "p", "r", "i", "n", "t", " ", "-", "t", "r", "u",
     "e", ";", "\n", "p", "r", "i", "n", "t", " ", "-", "\"", "a", "\"", ";">>

\*     fun f() {}
\*     class A {}
\*     print -f;
\*     print -A;
\*     print -A();
SrcNegateCallable ==
  <<"f", "u", "n", " ", "f", "(", ")", " ", "{", "}", "\n", "c", "l", "a", "s", "s",
     " ", "A", " ", "{", "}", "\n", "p", "r", "i", "n", "t", " ", "-", "f", ";", "\n",
     "p", "r", "i", "n", "t", " ", "-", "A", ";", "\n", "p", "r", "i", "n", "t", " ",
     "-", "A", "(", ")", ";">>

\*     print !nil;
\*     print !false;
\*     print !0;
\*     print !"";
\*     print !clock;
SrcNot ==
  <<"p", "r", "i", "n", "t", " ", "!", "n", "i", "l", ";", "\n", "p", "r", "i", "n",
     "t", " ", "!", "f", "a", "l", "s", "e", ";", "\n", "p", "r", "i", "n", "t", " ",
     "!", "0", ";", "\n", "p", "r", "i", "n", "t", " ", "!", "\"", "\"", ";", "\n", "p",
     "r", "i", "n", "t", " ", "!", "c", "l", "o", "c", "k", ";">>

\*     print 7 - 2;
\*     print 2 * 3;
\*     print 6 / 3;
\*     print 1 + 2;
\*     print "a" ++ "b";
\*     print "a" + "b";
SrcArith ==
  <<"p", "r", "i", "n", "t", " ", "7", " ", "-", " ", "2", ";", "\n", "p", "r", "i",
     "n", "t", " ", "2", " ", "*", " ", "3", ";", "\n", "p", "r", "i", "n", "t", " ",
     "6", " ", "/", " ", "3", ";", "\n", "p", "r", "i", "n", "t", " ", "1", " ", "+",
     " ", "2", ";", "\n", "p", "r", "i", "n", "t", " ", "\"", "a", "\"", " ", "+", "+",
     " ", "\"", "b", "\"", ";", "\n", "p", "r", "i", "n", "t", " ", "\"", "a", "\"", " ",
     "+", " ", "\"", "b", "\"", ";">>

\*     print "a" + 1;
SrcPlusStringNumber ==
  <<"p", "r", "i", "n", "t", " ", "\"", "a", "\"", " ", "+", " ", "1", ";">>

\*     print 1 ++ 2;
SrcConcatNumbers ==
  <<"p", "r", "i", "n", "t", " ", "1", " ", "+", "+", " ", "2", ";">>

\*     print "a" ++ nil;
SrcConcatMixed ==
  <<"p", "r", "i", "n", "t", " ", "\"", "a", "\"", " ", "+", "+", " ", "n", "i", "l",
     ";">>

\*     print 1 - nil;
\*     print 2;
SrcMinusNil ==
  <<"p", "r", "i", "n", "t", " ", "1", " ", "-", " ", "n", "i", "l", ";", "\n", "p",
     "r", "i", "n", "t", " ", "2", ";">>

\*     print true * 2;
SrcTimesBool ==
  <<"p", "r", "i", "n", "t", " ", "t", "r", "u", "e", " ", "*", " ", "2", ";">>

\*     print 4 / "2";
SrcDivideString ==
  <<"p", "r", "i", "n", "t", " ", "4", " ", "/", " ", "\"", "2", "\"", ";">>

\*     var y = 1;
\*     print y;
\*     print x;
SrcUndefinedRead ==
  <<"v", "a", "r", " ", "y", " ", "=", " ", "1", ";", "\n", "p", "r", "i", "n", "t",
     " ", "y", ";", "\n", "p", "r", "i", "n", "t", " ", "x", ";">>

\*     var y = 1;
\*     y = 2;
\*     print y;
\*     x = 1;
SrcUndefinedAssign ==
  <<"v", "a", "r", " ", "y", " ", "=", " ", "1", ";", "\n", "y", " ", "=", " ", "2",
     ";", "\n", "p", "r", "i", "n", "t", " ", "y", ";", "\n", "x", " ", "=", " ", "1",
     ";">>

\*     var a = 0;
\*     {
\*       var a = a = 1;
\*       print a;
\*     }
\*     print a;
SrcAssignInInitializer ==
  <<"v", "a", "r", " ", "a", " ", "=", " ", "0", ";", "\n", "{", "\n", " ", " ", "v",
     "a", "r", " ", "a", " ", "=", " ", "a", " ", "=", " ", "1", ";", "\n", " ", " ",
     "p", "r", "i", "n", "t", " ", "a", ";", "\n", "}", "\n", "p", "r", "i", "n", "t",
     " ", "a", ";">>

\*     fun f(a, b) { print a; }
\*     f(1, 2);
\*     class P { init(x) { print x; } }
\*     class Q < P {}
\*     class R {}
\*     Q(3);
\*     R();
\*     clock();
\*     f(4);
\*     print 5;
SrcArity ==
  <<"f", "u", "n", " ", "f", "(", "a", ",", " ", "b", ")", " ", "{", " ", "p", "r",
     "i", "n", "t", " ", "a", ";", " ", "}", "\n", "f", "(", "1", ",", " ", "2", ")",
     ";", "\n", "c", "l", "a", "s", "s", " ", "P", " ", "{", " ", "i", "n", "i", "t",
     "(", "x", ")", " ", "{", " ", "p", "r", "i", "n", "t", " ", "x", ";", " ", "}",
     " ", "}", "\n", "c", "l", "a", "s", "s", " ", "Q", " ", "<", " ", "P", " ", "{",
     "}", "\n", "c", "l", "a", "s", "s", " ", "R", " ", "{", "}", "\n", "Q", "(", "3",
     ")", ";", "\n", "R", "(", ")", ";", "\n", "c", "l", "o", "c", "k", "(", ")", ";",
     "\n", "f", "(", "4", ")", ";", "\n", "p", "r", "i", "n", "t", " ", "5", ";">>

\*     class P { init(x) { print x; } }
\*     class Q < P {}
\*     Q();
SrcArityInherited ==
  <<"c", "l", "a", "s", "s", " ", "P", " ", "{", " ", "i", "n", "i", "t", "(", "x",
     ")", " ", "{", " ", "p", "r", "i", "n", "t", " ", "x", ";", " ", "}", " ", "}",
     "\n", "c", "l", "a", "s", "s", " ", "Q", " ", "<", " ", "P", " ", "{", "}", "\n",
     "Q", "(", ")", ";">>

\*     class R {}
\*     R(1);
SrcArityNoInit ==
  <<"c", "l", "a", "s", "s", " ", "R", " ", "{", "}", "\n", "R", "(", "1", ")", ";">>

\*     clock(1);
SrcArityClock ==
  <<"c", "l", "o", "c", "k", "(", "1", ")", ";">>

\*     class A { m() { return 1; } n() { return this; } }
\*     class B < A { k() { return 2; } }
\*     var a = B();
\*     var b = B();
\*     print a.m();
\*     a.m = nil;
\*     print a.m;
\*     a.x = 3;
\*     print a.x = 4;
\*     print a.x;
\*     b.x = 5;
\*     print b.x;
\*     print a.x;
\*     print b.m();
\*     print a.k;
\*     print a.n().x;
\*     print a.y;
SrcProperty ==
  <<"c", "l", "a", "s", "s", " ", "A", " ", "{", " ", "m", "(", ")", " ", "{", " ",
     "r", "e", "t", "u", "r", "n", " ", "1", ";", " ", "}", " ", "n", "(", ")", " ",
     "{", " ", "r", "e", "t", "u", "r", "n", " ", "t", "h", "i", "s", ";", " ", "}",
     " ", "}", "\n", "c", "l", "a", "s", "s", " ", "B", " ", "<", " ", "A", " ", "{",
     " ", "k", "(", ")", " ", "{", " ", "r", "e", "t", "u", "r", "n", " ", "2", ";",
     " ", "}", " ", "}", "\n", "v", "a", "r", " ", "a", " ", "=", " ", "B", "(", ")",
     ";", "\n", "v", "a", "r", " ", "b", " ", "=", " ", "B", "(", ")", ";", "\n", "p",
     "r", "i", "n", "t", " ", "a", ".", "m", "(", ")", ";", "\n", "a", ".", "m", " ",
     "=", " ", "n", "i", "l", ";", "\n", "p", "r", "i", "n", "t", " ", "a", ".", "m",
     ";", "\n", "a", ".", "x", " ", "=", " ", "3", ";", "\n", "p", "r", "i", "n", "t",
     " ", "a", ".", "x", " ", "=", " ", "4", ";", "\n", "p", "r", "i", "n", "t", " ",
     "a", ".", "x", ";", "\n", "b", ".", "x", " ", "=", " ", "5", ";", "\n", "p", "r",
     "i", "n", "t", " ", "b", ".", "x", ";", "\n", "p", "r", "i", "n", "t", " ", "a",
     ".", "x", ";", "\n", "p", "r", "i", "n", "t", " ", "b", ".", "m", "(", ")", ";",
     "\n", "p", "r", "i", "n", "t", " ", "a", ".", "k", ";", "\n", "p", "r", "i", "n",
     "t", " ", "a", ".", "n", "(", ")", ".", "x", ";", "\n", "p", "r", "i", "n", "t",
     " ", "a", ".", "y", ";">>

\*     class A {}
\*     print A.x;
SrcGetNonInstance ==
  <<"c", "l", "a", "s", "s", " ", "A", " ", "{", "}", "\n", "p", "r", "i", "n", "t",
     " ", "A", ".", "x", ";">>

\*     print "s".x;
SrcGetString ==
  <<"p", "r", "i", "n", "t", " ", "\"", "s", "\"", ".", "x", ";">>

\*     var n = 1;
\*     print n.x = 2;
SrcSetNonInstance ==
  <<"v", "a", "r", " ", "n", " ", "=", " ", "1", ";", "\n", "p", "r", "i", "n", "t",
     " ", "n", ".", "x", " ", "=", " ", "2", ";">>

\*     class A {}
\*     var o = A();
\*     {
\*       var s;
\*       class C < s {}
\*       {
\*         print o.f = s;
\*         print o.f;
\*       }
\*     }
SrcSetUndefined ==
  <<"c", "l", "a", "s", "s", " ", "A", " ", "{", "}", "\n", "v", "a", "r", " ", "o",
     " ", "=", " ", "A", "(", ")", ";", "\n", "{", "\n", " ", " ", "v", "a", "r", " ",
     "s", ";", "\n", " ", " ", "c", "l", "a", "s", "s", " ", "C", " ", "<", " ", "s",
     " ", "{", "}", "\n", " ", " ", "{", "\n", " ", " ", " ", " ", "p", "r", "i", "n",
     "t", " ", "o", ".", "f", " ", "=", " ", "s", ";", "\n", " ", " ", " ", " ", "p",
     "r", "i", "n", "t", " ", "o", ".", "f", ";", "\n", " ", " ", "}", "\n", "}">>

\*     class A { m() { print "A"; print this; } }
\*     class B < A {
\*       m() { print "B"; }
\*       t() { super.m(); }
\*     }
\*     class C < B { m() { print "C"; } }
\*     C().t();
\*     B().t();
SrcSuperChain ==
  <<"c", "l", "a", "s", "s", " ", "A", " ", "{", " ", "m", "(", ")", " ", "{", " ",
     "p", "r", "i", "n", "t", " ", "\"", "A", "\"", ";", " ", "p", "r", "i", "n", "t",
     " ", "t", "h", "i", "s", ";", " ", "}", " ", "}", "\n", "c", "l", "a", "s", "s",
     " ", "B", " ", "<", " ", "A", " ", "{", "\n", " ", " ", "m", "(", ")", " ", "{",
     " ", "p", "r", "i", "n", "t", " ", "\"", "B", "\"", ";", " ", "}", "\n", " ", " ",
     "t", "(", ")", " ", "{", " ", "s", "u", "p", "e", "r", ".", "m", "(", ")", ";",
     " ", "}", "\n", "}", "\n", "c", "l", "a", "s", "s", " ", "C", " ", "<", " ", "B",
     " ", "{", " ", "m", "(", ")", " ", "{", " ", "p", "r", "i", "n", "t", " ", "\"",
     "C", "\"", ";", " ", "}", " ", "}", "\n", "C", "(", ")", ".", "t", "(", ")", ";",
     "\n", "B", "(", ")", ".", "t", "(", ")", ";">>

\*     class A {}
\*     class B < A { t() { print 1; super.m(); } }
\*     class C < B { m() { print "C"; } }
\*     C().t();
SrcSuperMissing ==
  <<"c", "l", "a", "s", "s", " ", "A", " ", "{", "}", "\n", "c", "l", "a", "s", "s",
     " ", "B", " ", "<", " ", "A", " ", "{", " ", "t", "(", ")", " ", "{", " ", "p",
     "r", "i", "n", "t", " ", "1", ";", " ", "s", "u", "p", "e", "r", ".", "m", "(",
     ")", ";", " ", "}", " ", "}", "\n", "c", "l", "a", "s", "s", " ", "C", " ", "<",
     " ", "B", " ", "{", " ", "m", "(", ")", " ", "{", " ", "p", "r", "i", "n", "t",
     " ", "\"", "C", "\"", ";", " ", "}", " ", "}", "\n", "C", "(", ")", ".", "t", "(",
     ")", ";">>

\*     class A { m() { print "A"; } }
\*     class B < A {
\*       t() {
\*         var s;
\*         class X < s {}
\*         super.m();
\*       }
\*     }
\*     B().t();
SrcSuperAfterClass ==
  <<"c", "l", "a", "s", "s", " ", "A", " ", "{", " ", "m", "(", ")", " ", "{", " ",
     "p", "r", "i", "n", "t", " ", "\"", "A", "\"", ";", " ", "}", " ", "}", "\n", "c",
     "l", "a", "s", "s", " ", "B", " ", "<", " ", "A", " ", "{", "\n", " ", " ", "t",
     "(", ")", " ", "{", "\n", " ", " ", " ", " ", "v", "a", "r", " ", "s", ";", "\n",
     " ", " ", " ", " ", "c", "l", "a", "s", "s", " ", "X", " ", "<", " ", "s", " ",
     "{", "}", "\n", " ", " ", " ", " ", "s", "u", "p", "e", "r", ".", "m", "(", ")",
     ";", "\n", " ", " ", "}", "\n", "}", "\n", "B", "(", ")", ".", "t", "(", ")", ";">>

\*     var s;
\*     class C < s { t() { super.m(); } }
\*     C().t();
SrcSuperOfNil ==
  <<"v", "a", "r", " ", "s", ";", "\n", "c", "l", "a", "s", "s", " ", "C", " ", "<",
     " ", "s", " ", "{", " ", "t", "(", ")", " ", "{", " ", "s", "u", "p", "e", "r",
     ".", "m", "(", ")", ";", " ", "}", " ", "}", "\n", "C", "(", ")", ".", "t", "(",
     ")", ";">>

\*     var g = 1;
\*     class A { m() { return this; } }
\*     class B < A {
\*       m() {
\*         var x = g;
\*         {
\*           fun f() { x = super.m(); return x; }
\*           return f();
\*         }
\*       }
\*     }
\*     print B().m();
SrcResolve ==
  <<"v", "a", "r", " ", "g", " ", "=", " ", "1", ";", "\n", "c", "l", "a", "s", "s",
     " ", "A", " ", "{", " ", "m", "(", ")", " ", "{", " ", "r", "e", "t", "u", "r",
     "n", " ", "t", "h", "i", "s", ";", " ", "}", " ", "}", "\n", "c", "l", "a", "s",
     "s", " ", "B", " ", "<", " ", "A", " ", "{", "\n", " ", " ", "m", "(", ")", " ",
     "{", "\n", " ", " ", " ", " ", "v", "a", "r", " ", "x", " ", "=", " ", "g", ";",
     "\n", " ", " ", " ", " ", "{", "\n", " ", " ", " ", " ", " ", " ", "f", "u", "n",
     " ", "f", "(", ")", " ", "{", " ", "x", " ", "=", " ", "s", "u", "p", "e", "r",
     ".", "m", "(", ")", ";", " ", "r", "e", "t", "u", "r", "n", " ", "x", ";", " ",
     "}", "\n", " ", " ", " ", " ", " ", " ", "r", "e", "t", "u", "r", "n", " ", "f",
     "(", ")", ";", "\n", " ", " ", " ", " ", "}", "\n", " ", " ", "}", "\n", "}", "\n",
     "p", "r", "i", "n", "t", " ", "B", "(", ")", ".", "m", "(", ")", ";">>

\*     fun f(n) {
\*       while (true) {
\*         {
\*           if (n < 1) { return "done"; }
\*           print n;
\*         }
\*         n = n - 1;
\*       }
\*       print "never";
\*     }
\*     fun g() {
\*       var r = f(2);
\*       print "after";
\*       return r;
\*       print "never";
\*     }
\*     print g();
SrcReturnNested ==
  <<"f", "u", "n", " ", "f", "(", "n", ")", " ", "{", "\n", " ", " ", "w", "h", "i",
     "l", "e", " ", "(", "t", "r", "u", "e", ")", " ", "{", "\n", " ", " ", " ", " ",
     "{", "\n", " ", " ", " ", " ", " ", " ", "i", "f", " ", "(", "n", " ", "<", " ",
     "1", ")", " ", "{", " ", "r", "e", "t", "u", "r", "n", " ", "\"", "d", "o", "n",
     "e", "\"", ";", " ", "}", "\n", " ", " ", " ", " ", " ", " ", "p", "r", "i", "n",
     "t", " ", "n", ";", "\n", " ", " ", " ", " ", "}", "\n", " ", " ", " ", " ", "n",
     " ", "=", " ", "n", " ", "-", " ", "1", ";", "\n", " ", " ", "}", "\n", " ", " ",
     "p", "r", "i", "n", "t", " ", "\"", "n", "e", "v", "e", "r", "\"", ";", "\n", "}",
     "\n", "f", "u", "n", " ", "g", "(", ")", " ", "{", "\n", " ", " ", "v", "a", "r",
     " ", "r", " ", "=", " ", "f", "(", "2", ")", ";", "\n", " ", " ", "p", "r", "i",
     "n", "t", " ", "\"", "a", "f", "t", "e", "r", "\"", ";", "\n", " ", " ", "r", "e",
     "t", "u", "r", "n", " ", "r", ";", "\n", " ", " ", "p", "r", "i", "n", "t", " ",
     "\"", "n", "e", "v", "e", "r", "\"", ";", "\n", "}", "\n", "p", "r", "i", "n", "t",
     " ", "g", "(", ")", ";">>

\*     class A {
\*       init() { return 1; }
\*       m() { fun g() { return this; } return; }
\*     }
\*     fun f() { class B < A { n() { return super.n(); } } return 2; }
\*     { var a = 1; var a = 2; }
\*     return 3;
\*     print this;
SrcResolverRestore ==
  <<"c", "l", "a", "s", "s", " ", "A", " ", "{", "\n", " ", " ", "i", "n", "i", "t",
     "(", ")", " ", "{", " ", "r", "e", "t", "u", "r", "n", " ", "1", ";", " ", "}",
     "\n", " ", " ", "m", "(", ")", " ", "{", " ", "f", "u", "n", " ", "g", "(", ")",
     " ", "{", " ", "r", "e", "t", "u", "r", "n", " ", "t", "h", "i", "s", ";", " ",
     "}", " ", "r", "e", "t", "u", "r", "n", ";", " ", "}", "\n", "}", "\n", "f", "u",
     "n", " ", "f", "(", ")", " ", "{", " ", "c", "l", "a", "s", "s", " ", "B", " ",
     "<", " ", "A", " ", "{", " ", "n", "(", ")", " ", "{", " ", "r", "e", "t", "u",
     "r", "n", " ", "s", "u", "p", "e", "r", ".", "n", "(", ")", ";", " ", "}", " ",
     "}", " ", "r", "e", "t", "u", "r", "n", " ", "2", ";", " ", "}", "\n", "{", " ",
     "v", "a", "r", " ", "a", " ", "=", " ", "1", ";", " ", "v", "a", "r", " ", "a",
     " ", "=", " ", "2", ";", " ", "}", "\n", "r", "e", "t", "u", "r", "n", " ", "3",
     ";", "\n", "p", "r", "i", "n", "t", " ", "t", "h", "i", "s", ";">>

\*     fun f() {
\*       class A { init() { return; } }
\*       return 1;
\*     }
\*     print f();
SrcReturnAfterClass ==
  <<"f", "u", "n", " ", "f", "(", ")", " ", "{", "\n", " ", " ", "c", "l", "a", "s",
     "s", " ", "A", " ", "{", " ", "i", "n", "i", "t", "(", ")", " ", "{", " ", "r",
     "e", "t", "u", "r", "n", ";", " ", "}", " ", "}", "\n", " ", " ", "r", "e", "t",
     "u", "r", "n", " ", "1", ";", "\n", "}", "\n", "p", "r", "i", "n", "t", " ", "f",
     "(", ")", ";">>

\*     { var a = 1; { var a = a; } }
SrcOwnInitializerShadow ==
  <<"{", " ", "v", "a", "r", " ", "a", " ", "=", " ", "1", ";", " ", "{", " ", "v",
     "a", "r", " ", "a", " ", "=", " ", "a", ";", " ", "}", " ", "}">>

\*     {
\*       var a = 1;
\*       {
\*         var a = (a + 1) * f(a);
\*         print a;
\*       }
\*       var b = a;
\*       print b;
\*     }
\*     fun h(p) {
\*       var q = q;
\*       var r = p;
\*       return q;
\*     }
SrcOwnInitializers ==
  <<"{", "\n", " ", " ", "v", "a", "r", " ", "a", " ", "=", " ", "1", ";", "\n", " ",
     " ", "{", "\n", " ", " ", " ", " ", "v", "a", "r", " ", "a", " ", "=", " ", "(",
     "a", " ", "+", " ", "1", ")", " ", "*", " ", "f", "(", "a", ")", ";", "\n", " ",
     " ", " ", " ", "p", "r", "i", "n", "t", " ", "a", ";", "\n", " ", " ", "}", "\n",
     " ", " ", "v", "a", "r", " ", "b", " ", "=", " ", "a", ";", "\n", " ", " ", "p",
     "r", "i", "n", "t", " ", "b", ";", "\n", "}", "\n", "f", "u", "n", " ", "h", "(",
     "p", ")", " ", "{", "\n", " ", " ", "v", "a", "r", " ", "q", " ", "=", " ", "q",
     ";", "\n", " ", " ", "v", "a", "r", " ", "r", " ", "=", " ", "p", ";", "\n", " ",
     " ", "r", "e", "t", "u", "r", "n", " ", "q", ";", "\n", "}">>

\*     var a = 1;
\*     var a = a;
\*     print a;
\*     var b = b;
SrcGlobalInitializer ==
  <<"v", "a", "r", " ", "a", " ", "=", " ", "1", ";", "\n", "v", "a", "r", " ", "a",
     " ", "=", " ", "a", ";", "\n", "p", "r", "i", "n", "t", " ", "a", ";", "\n", "v",
     "a", "r", " ", "b", " ", "=", " ", "b", ";">>

\* The source files the driver is run on.
Sources ==
  {SrcSuperNil, SrcSuperFalse, SrcSuperZero, SrcSuperEmpty,
   SrcSuperTrue, SrcSuperOne, SrcSuperString, SrcSuperFunction,
   SrcSuperInstance, SrcSuperClass, SrcBlockClass, SrcFunctionClass,
   SrcBlockSuperNil, SrcFunctionSuperFalse, SrcTopSuperNil, SrcExits,
   SrcLoopReturn, SrcCallNil, SrcCallTrue, SrcCallNumber,
   SrcCallString, SrcCallInstance, SrcCallNilVar, SrcSuperNoClause,
   SrcSuperNoClauseCall, SrcSuperOutside, SrcCounter, SrcTwoCounters,
   SrcCounterClass, SrcShadow, SrcShadowClass, SrcShadowGlobal,
   SrcInit, SrcReturnTop, SrcInheritSelf, SrcOwnInitializer,
   SrcThisOutside, SrcInitReturnsValue, SrcParseError, SrcResolveAfterPrint,
   SrcUnexpectedChar, SrcUnterminated, SrcUnexpectedOnly, SrcErrorThenPrint,
   SrcPrintArith, SrcComment, SrcCommentAtEnd, SrcLexErrors,
   SrcCompare, SrcGreater, SrcGreaterEqual, SrcEqual,
   SrcNotEqual, SrcNegate, SrcNegateCallable, SrcNot,
   SrcArith, SrcPlusStringNumber, SrcConcatNumbers, SrcConcatMixed,
   SrcMinusNil, SrcTimesBool, SrcDivideString, SrcUndefinedRead,
   SrcUndefinedAssign, SrcAssignInInitializer, SrcArity, SrcArityInherited,
   SrcArityNoInit, SrcArityClock, SrcProperty, SrcGetNonInstance,
   SrcGetString, SrcSetNonInstance, SrcSetUndefined, SrcSuperChain,
   SrcSuperMissing, SrcSuperAfterClass, SrcSuperOfNil, SrcResolve,
   SrcReturnNested, SrcResolverRestore, SrcReturnAfterClass, SrcOwnInitializerShadow,
   SrcOwnInitializers, SrcGlobalInitializer}
\* ---- sources: end ----

\* ----------------------------------------------------------------- values
\* Value = number | boolean | string | null | LoxCallable | LoxInstance, and
\* JavaScript's undefined, which the interpreter can produce.

NilV == [k |-> "nil"]
UndefinedV == [k |-> "undefined"]
BoolV(b) == [k |-> "bool", v |-> b]
NumV(n) == [k |-> "num", v |-> n]
StrV(s) == [k |-> "str", v |-> s]

\* ------------------------------------------------------------------ lexer

Digits == {"0", "1", "2", "3", "4", "5", "6", "7", "8", "9"}

Letters ==
  {"a", "b", "c", "d", "e", "f", "g", "h", "i", "j", "k", "l", "m",
   "n", "o", "p", "q", "r", "s", "t", "u", "v", "w", "x", "y", "z",
   "A", "B", "C", "D", "E", "F", "G", "H", "I", "J", "K", "L", "M",
   "N", "O", "P", "Q", "R", "S", "T", "U", "V", "W", "X", "Y", "Z"}

\* What peek() returns at the end of the source.
NUL == "<NUL>"

keywords ==
  [and |-> "AND", class |-> "CLASS", else |-> "ELSE", false |-> "FALSE",
   for |-> "FOR", fun |-> "FUN", if |-> "IF", nil |-> "NIL", or |-> "OR",
   print |-> "PRINT", return |-> "RETURN", super |-> "SUPER",
   this |-> "THIS", true |-> "TRUE", var |-> "VAR", while |-> "WHILE"]

\* The properties every JavaScript object literal inherits from
\* Object.prototype: keywords[lexeme] finds them although the literal does
\* not list them.
ObjectPrototypeKeys ==
  {"constructor", "toString", "toLocaleString", "valueOf", "hasOwnProperty",
   "isPrototypeOf", "propertyIsEnumerable", "__proto__",
   "__defineGetter__", "__defineSetter__", "__lookupGetter__",
   "__lookupSetter__"}

NewLexer == [tokens |-> <<>>, start |-> 0, current |-> 0, line |-> 1]

\* String.prototype.charAt: the empty string outside the source.
charAt(i) == IF i >= 0 /\ i < Len(source) THEN source[i + 1] ELSE ""

RECURSIVE sliceFrom(_, _)
sliceFrom(i, e) == IF i >= e THEN "" ELSE source[i + 1] \o sliceFrom(i + 1, e)

\* String.prototype.slice(a, b) for 0 <= a: b is clamped to the length.
slice(a, b) == sliceFrom(a, IF b > Len(source) THEN Len(source) ELSE b)

Lexer_isAtEnd(L) == L.current >= Len(source)

Lexer_isDigit(c) == c \in Digits

Lexer_isAlpha(c) == c \in Letters \/ c = "_"

Lexer_isAlphaNumeric(c) == Lexer_isDigit(c) \/ Lexer_isAlpha(c)

\* advance() moves on; the character it returns is charAt(current - 1).
Lexer_advance(L) == [L EXCEPT !.current = @ + 1]

Lexer_peek(L) == IF Lexer_isAtEnd(L) THEN NUL ELSE charAt(L.current)

Lexer_peekNext(L) ==
  IF L.current + 1 >= Len(source) THEN NUL ELSE charAt(L.current + 1)

Lexer_getLexeme(L) == slice(L.start, L.current)

Lexer_addToken(L, type, literal) ==
  [L EXCEPT !.tokens =
     Append(@, [type |-> type, lexeme |-> Lexer_getLexeme(L),
                literal |-> literal, line |-> L.line])]

\* match(expected): whether it matched, and the lexer after it.
Lexer_match(L, expected) ==
  IF Lexer_isAtEnd(L) \/ charAt(L.current) # expected
    THEN [matched |-> FALSE, L |-> L]
    ELSE [matched |-> TRUE, L |-> Lexer_advance(L)]

\* addToken(this.match(expected) ? yes : no)
Lexer_addMatched(L, expected, yes, no) ==
  LET m == Lexer_match(L, expected)
  IN  Lexer_addToken(m.L, IF m.matched THEN yes ELSE no, NilV)

\* The value of a string of decimal digits.
DigitValue(c) ==
  CASE c = "0" -> 0 [] c = "1" -> 1 [] c = "2" -> 2 [] c = "3" -> 3
    [] c = "4" -> 4 [] c = "5" -> 5 [] c = "6" -> 6 [] c = "7" -> 7
    [] c = "8" -> 8 [] c = "9" -> 9

RECURSIVE digitsValue(_, _, _)
digitsValue(i, e, acc) ==
  IF i >= e THEN acc ELSE digitsValue(i + 1, e, 10 * acc + DigitValue(charAt(i)))

RECURSIVE Lexer_whileDigit(_)
Lexer_whileDigit(L) ==
  IF Lexer_isDigit(Lexer_peek(L)) THEN Lexer_whileDigit(Lexer_advance(L)) ELSE L

\* number(): the literal is Number(lexeme).  The integer part is kept as an
\* integer and the digits of a fractional part as they are written.
Lexer_number(L) ==
  LET L1 == Lexer_whileDigit(L)
      frac == Lexer_peek(L1) = "." /\ Lexer_isDigit(Lexer_peekNext(L1))
      L2 == IF frac THEN Lexer_whileDigit(Lexer_advance(L1)) ELSE L1
      lit == IF frac
               THEN [k |-> "num", v |-> digitsValue(L.start, L1.current, 0),
                     frac |-> slice(L1.current + 1, L2.current)]
               ELSE NumV(digitsValue(L.start, L1.current, 0))
  IN  Lexer_addToken(L2, "NUMBER", lit)

RECURSIVE Lexer_whileAlphaNumeric(_)
Lexer_whileAlphaNumeric(L) ==
  IF Lexer_isAlphaNumeric(Lexer_peek(L))
    THEN Lexer_whileAlphaNumeric(Lexer_advance(L))
    ELSE L

\* identifier(): keywords[lexeme] ?? TokenType.IDENTIFIER.  For a lexeme that
\* names an inherited property the lookup yields that property, which is no
\* token type at all.
Lexer_identifier(L) ==
  LET L1 == Lexer_whileAlphaNumeric(L)
      lexeme == Lexer_getLexeme(L1)
      tokenType ==
        IF lexeme \in DOMAIN keywords THEN keywords[lexeme]
        ELSE IF lexeme \in ObjectPrototypeKeys THEN "<inherited property>"
        ELSE "IDENTIFIER"
  IN  Lexer_addToken(L1, tokenType, NilV)

RECURSIVE Lexer_stringLoop(_)
Lexer_stringLoop(L) ==
  IF Lexer_peek(L) # "\"" /\ ~Lexer_isAtEnd(L)
    THEN Lexer_stringLoop(
           Lexer_advance(IF Lexer_peek(L) = "\n"
                           THEN [L EXCEPT !.line = @ + 1] ELSE L))
    ELSE L

\* string(): the lexer after it and the diagnostics it reported.
Lexer_string(L) ==
  LET L1 == Lexer_stringLoop(L)
      L2 == Lexer_advance(L1)
      value == slice(L2.start + 1, L2.current - 1)
  IN  [L |-> Lexer_addToken(L2, "STRING", StrV(value)),
       diag |-> IF Lexer_isAtEnd(L1)
                  THEN <<[line |-> L1.line, message |-> "Unterminated string"]>>
                  ELSE <<>>,
       loops |-> FALSE]

LexOk(L) == [L |-> L, diag |-> <<>>, loops |-> FALSE]

\* The `//` case of scanToken.  Its loop
\*     while (this.peek() != '\n' && this.isAtEnd()) this.advance();
\* does nothing before the end of the source and never ends at the end of it.
Lexer_comment(L) ==
  LET m == Lexer_match(L, "/")
  IN  IF m.matched
        THEN [L |-> m.L, diag |-> <<>>, loops |-> Lexer_isAtEnd(m.L)]
        ELSE LexOk(Lexer_addToken(L, "SLASH", NilV))

\* scanToken(), called with start = current and not at the end.
Lexer_scanToken(L0) ==
  LET c == charAt(L0.current)
      L == Lexer_advance(L0)
  IN  CASE c = "(" -> LexOk(Lexer_addToken(L, "LEFT_PAREN", NilV))
        [] c = ")" -> LexOk(Lexer_addToken(L, "RIGHT_PAREN", NilV))
        [] c = "{" -> LexOk(Lexer_addToken(L, "LEFT_BRACE", NilV))
        [] c = "}" -> LexOk(Lexer_addToken(L, "RIGHT_BRACE", NilV))
        [] c = "," -> LexOk(Lexer_addToken(L, "COMMA", NilV))
        [] c = "." -> LexOk(Lexer_addToken(L, "DOT", NilV))
        [] c = "-" -> LexOk(Lexer_addToken(L, "MINUS", NilV))
        [] c = ";" -> LexOk(Lexer_addToken(L, "SEMICOLON", NilV))
        [] c = "*" -> LexOk(Lexer_addToken(L, "STAR", NilV))
        [] c = "+" -> LexOk(Lexer_addMatched(L, "+", "PLUS_PLUS", "PLUS"))
        [] c = "!" -> LexOk(Lexer_addMatched(L, "=", "BANG_EQUAL", "BANG"))
        [] c = "=" -> LexOk(Lexer_addMatched(L, "=", "EQUAL_EQUAL", "EQUAL"))
        [] c = "<" -> LexOk(Lexer_addMatched(L, "=", "LESS_EQUAL", "LESS"))
        [] c = ">" -> LexOk(Lexer_addMatched(L, "=", "GREATER_EQUAL", "GREATER"))
        [] c = "/" -> Lexer_comment(L)
        [] c \in {" ", "\r", "\t"} -> LexOk(L)
        [] c = "\n" -> LexOk([L EXCEPT !.line = @ + 1])
        [] c = "\"" -> Lexer_string(L)
        [] Lexer_isDigit(c) -> LexOk(Lexer_number(L))
        [] OTHER ->
             IF Lexer_isAlpha(c)
               THEN LexOk(Lexer_identifier(L))
               ELSE [L |-> L,
                     diag |-> <<[line |-> L.line,
                                 message |-> "Unexpected character"]>>,
                     loops |-> FALSE]

\* The decimal numeral of an integer.
DigitChar(d) ==
  CASE d = 0 -> "0" [] d = 1 -> "1" [] d = 2 -> "2" [] d = 3 -> "3"
    [] d = 4 -> "4" [] d = 5 -> "5" [] d = 6 -> "6" [] d = 7 -> "7"
    [] d = 8 -> "8" [] d = 9 -> "9"

RECURSIVE Numeral(_)
Numeral(n) ==
  IF n < 0 THEN "-" \o Numeral(0 - n)
  ELSE IF n < 10 THEN DigitChar(n)
  ELSE Numeral(n \div 10) \o DigitChar(n % 10)

\* reportError(line, where, message), the line it writes to console.error.
reportError(line, where, message) ==
  "[line " \o Numeral(line) \o "] Error" \o where \o ": " \o message

\* runtimeError(error), the text it writes to console.error.
runtimeError(error) ==
  error.message \o "\n[line " \o Numeral(error.line) \o "]"

RECURSIVE reportAll(_)
reportAll(diags) ==
  IF diags = <<>> THEN <<>>
  ELSE <<reportError(Head(diags).line, "", Head(diags).message)>>
         \o reportAll(Tail(diags))

\* ----------------------------------------------------------------- parser
\* The parser is `p`: current (an index into tokens, from 0), parseError
\* (whether the field holds a ParseError), errs (the lines printError has
\* written) and trace (a history of what the parser did).  A parsing method yields [p, n, thrown]: the parser after it, the
\* node it returned, and whether it threw a ParseError instead.

MAX_ARGS == 255

NewParser ==
  [current |-> 0, parseError |-> FALSE, errs |-> <<>>, trace |-> <<>>]

NullNode == [type |-> "null"]

POk(p, n) == [p |-> p, n |-> n, thrown |-> FALSE]

PThrow(p) == [p |-> p, n |-> NullNode, thrown |-> TRUE]

\* printError(token, message), the line it writes.
printError(token, message) ==
  reportError(token.line, " at " \o token.lexeme, message)

Parser_peek(p) == tokens[p.current + 1]

Parser_previous(p) == tokens[p.current]

Parser_isAtEnd(p) == Parser_peek(p).type = "EOF"

Parser_check(p, type) ==
  IF Parser_isAtEnd(p) THEN FALSE ELSE Parser_peek(p).type = type

\* advance(); the token it returns is previous() of the result.
Parser_advance(p) ==
  IF ~Parser_isAtEnd(p) THEN [p EXCEPT !.current = @ + 1] ELSE p

\* Whether match(...types) matches; it then advances.
Parser_match(p, types) == \E type \in types : Parser_check(p, type)

\* error(token, message): reports, records the ParseError and returns it.
Parser_error(p, token, message) ==
  [p EXCEPT !.parseError = TRUE,
            !.errs = Append(@, printError(token, message)),
            !.trace = Append(@, [ev |-> "error", token |-> token,
                                 current |-> p.current])]

\* consume(type, message): n is the consumed token.
Parser_consume(p, type, message) ==
  IF Parser_check(p, type)
    THEN POk(Parser_advance(p), Parser_previous(Parser_advance(p)))
    ELSE PThrow(Parser_error(p, Parser_peek(p), message))

\* Expression nodes.  A node the resolution table can key (Variable, Assign,
\* This, Super) carries `id`, its identity: the index of the token it was
\* made from.
LiteralE(value) == [type |-> "Literal", value |-> value]

VariableE(name, id) == [type |-> "Variable", name |-> name, id |-> id]

BinaryE(operator, left, right) ==
  [type |-> "Binary", operator |-> operator, left |-> left, right |-> right]

LogicalE(operator, left, right) ==
  [type |-> "Logical", operator |-> operator, left |-> left, right |-> right]

\* A ParseError thrown by a call propagates through its caller: the rest of
\* the method, K, runs on the result r only when r did not throw.
PBind(r, K(_)) == IF r.thrown THEN r ELSE K(r)

RECURSIVE Parser_expression(_)
RECURSIVE Parser_assignment(_)
RECURSIVE Parser_unary(_)
RECURSIVE Parser_finishArgs(_, _)
RECURSIVE Parser_callLoop(_)
RECURSIVE Parser_binary(_, _, _, _)

Parser_primary(p) ==
  LET q == Parser_advance(p)
  IN  IF Parser_match(p, {"FALSE"}) THEN POk(q, LiteralE(BoolV(FALSE)))
      ELSE IF Parser_match(p, {"TRUE"}) THEN POk(q, LiteralE(BoolV(TRUE)))
      ELSE IF Parser_match(p, {"NIL"}) THEN POk(q, LiteralE(NilV))
      ELSE IF Parser_match(p, {"NUMBER", "STRING"})
        THEN POk(q, LiteralE(Parser_previous(q).literal))
      ELSE IF Parser_match(p, {"SUPER"}) THEN
        PBind(Parser_consume(q, "DOT", "Expected . after keyword super."),
              LAMBDA dot :
        PBind(Parser_consume(dot.p, "IDENTIFIER",
                             "Expected superclass method name."),
              LAMBDA method :
        POk(method.p, [type |-> "Super", keyword |-> Parser_previous(q),
                       method |-> method.n, id |-> q.current])))
      ELSE IF Parser_match(p, {"THIS"})
        THEN POk(q, [type |-> "This", keyword |-> Parser_previous(q),
                     id |-> q.current])
      ELSE IF Parser_match(p, {"IDENTIFIER"})
        THEN POk(q, VariableE(Parser_previous(q), q.current))
      ELSE IF Parser_match(p, {"LEFT_PAREN"}) THEN
        PBind(Parser_expression(q), LAMBDA expr :
        PBind(Parser_consume(expr.p, "RIGHT_PAREN",
                             "Expected \")\" after expression."),
              LAMBDA close :
        POk(close.p, [type |-> "Grouping", expr |-> expr.n])))
      ELSE PThrow(Parser_error(p, Parser_peek(p), "Unexpected token"))

\* The do-while of finishCall: args is the list of the arguments so far.
Parser_finishArgs(p, args) ==
  PBind(Parser_expression(
          IF Len(args) >= MAX_ARGS
            THEN Parser_error(p, Parser_peek(p),
                   "Functions can not have more than 255 arguments.")
            ELSE p),
        LAMBDA arg :
    IF Parser_match(arg.p, {"COMMA"})
      THEN Parser_finishArgs(Parser_advance(arg.p), Append(args, arg.n))
      ELSE POk(arg.p, Append(args, arg.n)))

Parser_finishCall(p, expr) ==
  PBind(IF ~Parser_check(p, "RIGHT_PAREN")
          THEN Parser_finishArgs(p, <<>>)
          ELSE POk(p, <<>>),
        LAMBDA args :
  PBind(Parser_consume(args.p, "RIGHT_PAREN",
                       "Expected ) after function call."),
        LAMBDA paren :
  POk(paren.p, [type |-> "Call", callee |-> expr, args |-> args.n,
                paren |-> paren.n])))

\* The loop of call(): r holds the expression so far.
Parser_callLoop(r) ==
  IF r.thrown THEN r
  ELSE IF Parser_match(r.p, {"LEFT_PAREN"})
    THEN Parser_callLoop(Parser_finishCall(Parser_advance(r.p), r.n))
  ELSE IF Parser_match(r.p, {"DOT"}) THEN
    PBind(Parser_consume(Parser_advance(r.p), "IDENTIFIER",
                         "Expected identifier after \".\"."),
          LAMBDA name :
    Parser_callLoop(
      POk(name.p, [type |-> "Getter", object |-> r.n, name |-> name.n])))
  ELSE r

Parser_call(p) == Parser_callLoop(Parser_primary(p))

Parser_unary(p) ==
  IF Parser_match(p, {"BANG", "MINUS"}) THEN
    PBind(Parser_unary(Parser_advance(p)), LAMBDA right :
    POk(right.p, [type |-> "Unary",
                  operator |-> Parser_previous(Parser_advance(p)),
                  expr |-> right.n]))
  ELSE Parser_call(p)

\* factor, term, comparison, equality (Binary nodes) and and, or (Logical
\* nodes) are one method but for the operand method and the operator types:
\* expr = operand(); while (this.match(...types)) { operator = previous();
\* right = operand(); expr = new node }.  Parser_binary is that method from
\* an operand on: left is the expression so far and operator the matched
\* token, both NullNode before the first operand.
Parser_factor(p) == Parser_binary("factor", p, NullNode, NullNode)

Parser_term(p) == Parser_binary("term", p, NullNode, NullNode)

Parser_comparison(p) == Parser_binary("comparison", p, NullNode, NullNode)

Parser_equality(p) == Parser_binary("equality", p, NullNode, NullNode)

Parser_and(p) == Parser_binary("and", p, NullNode, NullNode)

Parser_or(p) == Parser_binary("or", p, NullNode, NullNode)

\* The operand method of each of them.
Parser_operand(level, p) ==
  CASE level = "factor" -> Parser_unary(p)
    [] level = "term" -> Parser_factor(p)
    [] level = "comparison" -> Parser_term(p)
    [] level = "equality" -> Parser_comparison(p)
    [] level = "and" -> Parser_equality(p)
    [] level = "or" -> Parser_and(p)

\* The operator types of each of them.
Parser_operators(level) ==
  CASE level = "factor" -> {"SLASH", "STAR"}
    [] level = "term" -> {"MINUS", "PLUS", "PLUS_PLUS"}
    [] level = "comparison" ->
         {"GREATER", "GREATER_EQUAL", "LESS", "LESS_EQUAL"}
    [] level = "equality" -> {"BANG_EQUAL", "EQUAL_EQUAL"}
    [] level = "and" -> {"AND"}
    [] level = "or" -> {"OR"}

\* The test of the while: expr is the expression so far.
Parser_binaryLoop(level, p, expr) ==
  IF Parser_match(p, Parser_operators(level))
    THEN Parser_binary(level, Parser_advance(p), expr,
                       Parser_previous(Parser_advance(p)))
    ELSE POk(p, expr)

Parser_binary(level, p, left, operator) ==
  PBind(Parser_operand(level, p), LAMBDA right :
  Parser_binaryLoop(level, right.p,
    IF left = NullNode THEN right.n
    ELSE IF level \in {"and", "or"} THEN LogicalE(operator, left, right.n)
    ELSE BinaryE(operator, left, right.n)))

Parser_assignment(p) ==
  PBind(Parser_or(p), LAMBDA expr :
    IF Parser_match(expr.p, {"EQUAL"}) THEN
      PBind(Parser_assignment(Parser_advance(expr.p)), LAMBDA value :
        IF expr.n.type = "Variable"
          THEN POk(value.p, [type |-> "Assign", name |-> expr.n.name,
                             expr |-> value.n, id |-> expr.n.id])
        ELSE IF expr.n.type = "Getter"
          THEN POk(value.p, [type |-> "Setter", object |-> expr.n.object,
                             name |-> expr.n.name, expr |-> value.n])
        ELSE POk(Parser_error(value.p, Parser_previous(Parser_advance(expr.p)),
                              "Invalid assignment target."),
                 expr.n))
    ELSE expr)

Parser_expression(p) == Parser_assignment(p)

\* Statement nodes.
ExpressionS(expression) == [type |-> "Expression", expression |-> expression]

BlockS(stmts) == [type |-> "Block", statements |-> stmts]

WhileS(condition, body) ==
  [type |-> "While", condition |-> condition, body |-> body]

RECURSIVE Parser_declaration(_)
RECURSIVE Parser_statement(_)
RECURSIVE Parser_blockLoop(_, _)

Parser_expressionStatement(p) ==
  PBind(Parser_expression(p), LAMBDA value :
  PBind(Parser_consume(value.p, "SEMICOLON", "Expected ; after value"),
        LAMBDA semi :
  POk(semi.p, ExpressionS(value.n))))

Parser_printStatement(p) ==
  PBind(Parser_expression(p), LAMBDA value :
  PBind(Parser_consume(value.p, "SEMICOLON", "Expected ; after value"),
        LAMBDA semi :
  POk(semi.p, [type |-> "Print", expression |-> value.n])))

Parser_varDeclaration(p) ==
  PBind(Parser_consume(p, "IDENTIFIER", "Expected variable name."),
        LAMBDA name :
  PBind(IF Parser_match(name.p, {"EQUAL"})
          THEN Parser_expression(Parser_advance(name.p))
          ELSE POk(name.p, LiteralE(NilV)),
        LAMBDA initializer :
  PBind(Parser_consume(initializer.p, "SEMICOLON",
                       "Expected ; after variable declaration"),
        LAMBDA semi :
  POk(semi.p, [type |-> "Var", name |-> name.n,
               initializer |-> initializer.n]))))

\* returnStatement(), called after `return` was matched.
Parser_returnStatement(p) ==
  PBind(IF ~Parser_check(p, "SEMICOLON")
          THEN Parser_expression(p)
          ELSE POk(p, LiteralE(NilV)),
        LAMBDA value :
  PBind(Parser_consume(value.p, "SEMICOLON", "Expected ; after return value."),
        LAMBDA semi :
  POk(semi.p, [type |-> "Return", keyword |-> Parser_previous(p),
               value |-> value.n, empty |-> Parser_check(p, "SEMICOLON")])))

\* The loop of block(); declaration() never throws.
Parser_blockLoop(p, stmts) ==
  IF ~Parser_check(p, "RIGHT_BRACE") /\ ~Parser_isAtEnd(p)
    THEN PBind(Parser_declaration(p), LAMBDA d :
         Parser_blockLoop(d.p, Append(stmts, d.n)))
    ELSE POk(p, stmts)

Parser_block(p) ==
  PBind(Parser_blockLoop(p, <<>>), LAMBDA stmts :
  PBind(Parser_consume(stmts.p, "RIGHT_BRACE", "Expected } after block."),
        LAMBDA close :
  POk(close.p, stmts.n)))

Parser_whileStatement(p) ==
  PBind(Parser_consume(p, "LEFT_PAREN", "Expected ( after while keyword."),
        LAMBDA open :
  PBind(Parser_expression(open.p), LAMBDA condition :
  PBind(Parser_consume(condition.p, "RIGHT_PAREN",
                       "Expected ) after condition."),
        LAMBDA close :
  PBind(Parser_statement(close.p), LAMBDA body :
  POk(body.p, WhileS(condition.n, body.n))))))

Parser_ifStatement(p) ==
  PBind(Parser_consume(p, "LEFT_PAREN", "Expeted ( after if keyword."),
        LAMBDA open :
  PBind(Parser_expression(open.p), LAMBDA condition :
  PBind(Parser_consume(condition.p, "RIGHT_PAREN",
                       "Expeted ) after condition."),
        LAMBDA close :
  PBind(Parser_statement(close.p), LAMBDA th :
  PBind(IF Parser_match(th.p, {"ELSE"})
          THEN Parser_statement(Parser_advance(th.p))
          ELSE POk(th.p, BlockS(<<>>)),
        LAMBDA el :
  POk(el.p, [type |-> "If", condition |-> condition.n,
             th |-> th.n, el |-> el.n]))))))

Parser_forStatement(p) ==
  PBind(Parser_consume(p, "LEFT_PAREN", "Expeted ( after for keyword."),
        LAMBDA open :
  PBind(IF Parser_match(open.p, {"SEMICOLON"})
          THEN POk(Parser_advance(open.p), BlockS(<<>>))
        ELSE IF Parser_match(open.p, {"VAR"})
          THEN Parser_varDeclaration(Parser_advance(open.p))
        ELSE Parser_expressionStatement(open.p),
        LAMBDA initializer :
  PBind(IF ~Parser_check(initializer.p, "SEMICOLON")
          THEN Parser_expression(initializer.p)
          ELSE POk(initializer.p, LiteralE(BoolV(TRUE))),
        LAMBDA condition :
  PBind(Parser_consume(condition.p, "SEMICOLON", "Expected ; after condition."),
        LAMBDA semi :
  PBind(IF ~Parser_check(semi.p, "RIGHT_PAREN")
          THEN Parser_expression(semi.p)
          ELSE POk(semi.p, LiteralE(NilV)),
        LAMBDA increment :
  PBind(Parser_consume(increment.p, "RIGHT_PAREN",
                       "Expected ) after for clauses."),
        LAMBDA close :
  PBind(Parser_statement(close.p), LAMBDA body :
  POk(body.p,
      BlockS(<<initializer.n,
               WhileS(condition.n,
                      BlockS(<<body.n, ExpressionS(increment.n)>>))>>)))))))))

Parser_statement(p) ==
  LET q == Parser_advance(p)
  IN  IF Parser_match(p, {"IF"}) THEN Parser_ifStatement(q)
      ELSE IF Parser_match(p, {"PRINT"}) THEN Parser_printStatement(q)
      ELSE IF Parser_match(p, {"RETURN"}) THEN Parser_returnStatement(q)
      ELSE IF Parser_match(p, {"WHILE"}) THEN Parser_whileStatement(q)
      ELSE IF Parser_match(p, {"FOR"}) THEN Parser_forStatement(q)
      ELSE IF Parser_match(p, {"LEFT_BRACE"}) THEN
        PBind(Parser_block(q), LAMBDA stmts : POk(stmts.p, BlockS(stmts.n)))
      ELSE Parser_expressionStatement(p)

\* The do-while of funDeclaration: params is the list of the parameters so far.
RECURSIVE Parser_params(_, _, _)
Parser_params(p, params, kind) ==
  PBind(Parser_consume(
          IF Len(params) >= MAX_ARGS
            THEN Parser_error(p, Parser_peek(p),
                   "Functions can not have more than 255 parameters.")
            ELSE p,
          "IDENTIFIER", "Expected parameter name."),
        LAMBDA param :
    IF Parser_match(param.p, {"COMMA"})
      THEN Parser_params(Parser_advance(param.p), Append(params, param.n), kind)
      ELSE POk(param.p, Append(params, param.n)))

Parser_funDeclaration(p, kind) ==
  PBind(Parser_consume(p, "IDENTIFIER", "Expected " \o kind \o " name."),
        LAMBDA name :
  PBind(Parser_consume(name.p, "LEFT_PAREN",
                       "Expected ( after " \o kind \o " name."),
        LAMBDA open :
  PBind(IF ~Parser_check(open.p, "RIGHT_PAREN")
          THEN Parser_params(open.p, <<>>, kind)
          ELSE POk(open.p, <<>>),
        LAMBDA params :
  PBind(Parser_consume(params.p, "RIGHT_PAREN",
                       "Expected ) after " \o kind \o " parameters."),
        LAMBDA close :
  PBind(Parser_consume(close.p, "LEFT_BRACE",
                       "Expected { before " \o kind \o " body."),
        LAMBDA brace :
  PBind(Parser_block(brace.p), LAMBDA body :
  POk(body.p, [type |-> "Fun", name |-> name.n, params |-> params.n,
               body |-> body.n])))))))

\* The loop over the methods of classDeclaration.
RECURSIVE Parser_methods(_, _)
Parser_methods(p, methods) ==
  IF ~Parser_check(p, "RIGHT_BRACE") /\ ~Parser_isAtEnd(p)
    THEN PBind(Parser_funDeclaration(p, "method"), LAMBDA m :
         Parser_methods(m.p, Append(methods, m.n)))
    ELSE POk(p, methods)

\* The token of the superclass the parser makes up when the source has no
\* `<` clause: new Token(TokenType.IDENTIFIER, 'Object', null, null).  Line 0
\* stands for its null line.
ObjectToken ==
  [type |-> "IDENTIFIER", lexeme |-> "Object", literal |-> NilV, line |-> 0]

\* classDeclaration(), called after `class` was matched.  The Variable made
\* for an absent `<` clause is a node of its own: its id is the negated
\* index of the class's name.
Parser_classDeclaration(p) ==
  PBind(Parser_consume(p, "IDENTIFIER",
                       "Expected class name after keyword \"class\"."),
        LAMBDA name :
  PBind(IF Parser_match(name.p, {"LESS"})
          THEN Parser_consume(Parser_advance(name.p), "IDENTIFIER",
                              "Expected super class name after <.")
          ELSE POk(name.p, ObjectToken),
        LAMBDA super :
  PBind(Parser_consume(super.p, "LEFT_BRACE", "Expected { before class body."),
        LAMBDA brace :
  PBind(Parser_methods(brace.p, <<>>), LAMBDA methods :
  PBind(Parser_consume(methods.p, "RIGHT_BRACE",
                       "Expected } after class body."),
        LAMBDA close :
  POk(close.p,
      [type |-> "Class", name |-> name.n,
       superClass |-> IF Parser_match(name.p, {"LESS"})
                        THEN VariableE(super.n, super.p.current)
                        ELSE VariableE(ObjectToken, 0 - name.p.current),
       methods |-> methods.n]))))))

SyncTypes == {"CLASS", "FUN", "VAR", "FOR", "IF", "WHILE", "PRINT", "RETURN"}

RECURSIVE Parser_synchonizeLoop_afterKeyword(_)
RECURSIVE Parser_synchonizeLoop(_)

\* A faulty loop of synchonize, which tests previous() instead of peek() for
\* the keywords that begin a statement.
Parser_synchonizeLoop_afterKeyword(p) ==
  IF Parser_isAtEnd(p) THEN p
  ELSE IF Parser_previous(p).type = "SEMICOLON" THEN p
  ELSE IF Parser_previous(p).type \in SyncTypes THEN p
  ELSE Parser_synchonizeLoop_afterKeyword(Parser_advance(p))

Parser_synchonizeLoop(p) ==
  IF Parser_isAtEnd(p) THEN p
  ELSE IF Parser_previous(p).type = "SEMICOLON" THEN p
  ELSE IF Parser_peek(p).type \in SyncTypes THEN p
  ELSE Parser_synchonizeLoop(Parser_advance(p))

Parser_synchonize(p) == Parser_synchonizeLoop(Parser_advance(p))

\* What synchonize() did: it was called at `from` and returned with q.
Parser_synchonized(from, q) ==
  [q EXCEPT !.trace = Append(@, [ev |-> "synchonize", from |-> from,
                                 to |-> q.current])]

\* What a call of declaration() at `start` did: it ended with r, after
\* catching a ParseError or not.
Parser_declared(start, caught, r) ==
  [r EXCEPT !.p.trace = Append(@, [ev |-> "declaration", start |-> start,
                                   end |-> r.p.current, caught |-> caught])]

\* The catch of declaration(): r is the outcome of its try block.
Parser_catch(r) ==
  IF r.thrown
    THEN POk(Parser_synchonized(r.p.current, Parser_synchonize(r.p)), NullNode)
    ELSE r

\* declaration() from its try block on: r is the outcome of the block.
Parser_declare(p, r) == Parser_declared(p.current, r.thrown, Parser_catch(r))

\* declaration(): a ParseError thrown below it is caught here.
Parser_declaration(p) ==
  Parser_declare(p,
    IF Parser_match(p, {"CLASS"})
      THEN Parser_classDeclaration(Parser_advance(p))
    ELSE IF Parser_match(p, {"FUN"})
      THEN Parser_funDeclaration(Parser_advance(p), "function")
    ELSE IF Parser_match(p, {"VAR"})
      THEN Parser_varDeclaration(Parser_advance(p))
    ELSE Parser_statement(p))

RECURSIVE Parser_parseLoop(_, _)
Parser_parseLoop(p, stmts) ==
  IF ~Parser_isAtEnd(p)
    THEN PBind(Parser_declaration(p), LAMBDA d :
         Parser_parseLoop(d.p, Append(stmts, d.n)))
    ELSE POk(p, stmts)

\* parse(): n is the list of statements, p the parser with its parseError.
Parser_parse == Parser_parseLoop(NewParser, <<>>)

\* --------------------------------------------------------------- resolver
\* The resolver is `r`: scopes (a stack of maps from names to declared
\* (FALSE) or defined (TRUE)), resolveError (whether the field holds a
\* ResolveError), errs (the lines printError has written), currentFunction,
\* currentClass, locals, the interpreter's table that
\* interpreter.resolve(expr, depth) fills, keyed by the identity of the node,
\* and trace, a history of what the resolver did.
\* No name that reaches a scope is one of ObjectPrototypeKeys (the lexer gives
\* those no IDENTIFIER token), so `scope[name] !== undefined` is membership.

EmptyMap == [x \in {} |-> FALSE]

MapPut(m, key, value) ==
  [x \in DOMAIN m \cup {key} |-> IF x = key THEN value ELSE m[x]]

NewResolver(locals) ==
  [scopes |-> <<>>, resolveError |-> FALSE, errs |-> <<>>,
   currentFunction |-> "NONE", currentClass |-> "NONE", locals |-> locals,
   trace |-> <<>>]

Resolver_error(r, token, message) ==
  [r EXCEPT !.resolveError = TRUE,
            !.errs = Append(@, printError(token, message))]

Resolver_beginScope(r) == [r EXCEPT !.scopes = Append(@, EmptyMap)]

\* Array.prototype.pop leaves an empty array empty.
Resolver_endScope(r) ==
  [r EXCEPT !.scopes = IF @ = <<>> THEN @ ELSE SubSeq(@, 1, Len(@) - 1)]

Resolver_emptyScopes(r) == Len(r.scopes) = 0

Resolver_peekScope(r) == r.scopes[Len(r.scopes)]

\* peekScope()[key] = value
Resolver_setInScope(r, key, value) ==
  [r EXCEPT !.scopes[Len(r.scopes)] = MapPut(@, key, value)]

Resolver_declare(r, name) ==
  IF Resolver_emptyScopes(r) THEN r
  ELSE LET r1 == IF name.lexeme \in DOMAIN Resolver_peekScope(r)
                   THEN Resolver_error(r, name,
                          "Variable with name " \o name.lexeme
                            \o " already declared in this scope.")
                   ELSE r
       IN  Resolver_setInScope(r1, name.lexeme, FALSE)

Resolver_define(r, name) ==
  IF Resolver_emptyScopes(r) THEN r
  ELSE Resolver_setInScope(r, name.lexeme, TRUE)

Resolver_declareAndDefine(r, name) ==
  Resolver_define(Resolver_declare(r, name), name)

RECURSIVE Resolver_resolveLocalFrom_fromOutermost(_, _, _, _)
RECURSIVE Resolver_resolveLocalFrom(_, _, _, _)

\* A faulty resolveLocal, which records i, the place of the scope counted
\* from the outermost one.
Resolver_resolveLocalFrom_fromOutermost(r, expr, name, i) ==
  IF i < 0 THEN r
  ELSE IF name.lexeme \in DOMAIN r.scopes[i + 1]
    THEN [r EXCEPT !.locals = MapPut(@, expr.id, i)]
  ELSE Resolver_resolveLocalFrom_fromOutermost(r, expr, name, i - 1)

\* The loop of resolveLocal, from scope i (counted from 0) down to scope 0.
Resolver_resolveLocalFrom(r, expr, name, i) ==
  IF i < 0 THEN r
  ELSE IF name.lexeme \in DOMAIN r.scopes[i + 1]
    THEN [r EXCEPT !.locals = MapPut(@, expr.id, Len(r.scopes) - 1 - i)]
  ELSE Resolver_resolveLocalFrom(r, expr, name, i - 1)

\* resolveLocal(expr, name), and what it was called with: the node, the name
\* and the scopes then.
Resolver_resolveLocal(r, expr, name) ==
  Resolver_resolveLocalFrom(
    [r EXCEPT !.trace = Append(@, [ev |-> "resolveLocal", id |-> expr.id,
                                   type |-> expr.type, name |-> name.lexeme,
                                   scopes |-> r.scopes])],
    expr, name, Len(r.scopes) - 1)

RECURSIVE Resolver_resolveStmt(_, _)
RECURSIVE Resolver_resolveExpr(_, _)

\* What resolving a statement or a method did: r is the resolver before it
\* and r2 the resolver after it.
Resolver_resolved(r, type, r2) ==
  [r2 EXCEPT !.trace =
     Append(@, [ev |-> "resolved", type |-> type,
                before |-> [currentFunction |-> r.currentFunction,
                            currentClass |-> r.currentClass,
                            depth |-> Len(r.scopes)],
                after |-> [currentFunction |-> r2.currentFunction,
                           currentClass |-> r2.currentClass,
                           depth |-> Len(r2.scopes)],
                errors |-> SubSeq(r2.errs, Len(r.errs) + 1, Len(r2.errs))])]

\* resolve(statements): statements.forEach.  The test of r.resolveError is
\* always false; it has the resolver computed statement by statement.
RECURSIVE Resolver_resolve(_, _)
Resolver_resolve(r, stmts) ==
  IF stmts = <<>> \/ r.resolveError \notin BOOLEAN THEN r
  ELSE Resolver_resolve(Resolver_resolveStmt(r, Head(stmts)), Tail(stmts))

RECURSIVE Resolver_resolveExprs(_, _)
Resolver_resolveExprs(r, exprs) ==
  IF exprs = <<>> THEN r
  ELSE Resolver_resolveExprs(Resolver_resolveExpr(r, Head(exprs)), Tail(exprs))

RECURSIVE Resolver_declareParams(_, _)
Resolver_declareParams(r, params) ==
  IF params = <<>> THEN r
  ELSE Resolver_declareParams(Resolver_declareAndDefine(r, Head(params)),
                              Tail(params))

\* A faulty resolveFunction, which does not restore currentFunction.
Resolver_resolveFunction_withoutRestore(r, stmt, functionType) ==
  Resolver_endScope(
    Resolver_resolve(
      Resolver_declareParams(
        Resolver_beginScope([r EXCEPT !.currentFunction = functionType]),
        stmt.params),
      stmt.body))

Resolver_resolveFunction(r, stmt, functionType) ==
  LET enclosingFunction == r.currentFunction
      r1 == Resolver_beginScope([r EXCEPT !.currentFunction = functionType])
      r2 == Resolver_declareParams(r1, stmt.params)
      r3 == Resolver_endScope(Resolver_resolve(r2, stmt.body))
  IN  [r3 EXCEPT !.currentFunction = enclosingFunction]

Resolver_visitExpressionStmt(r, stmt) == Resolver_resolveExpr(r, stmt.expression)

Resolver_visitFunStmt(r, stmt) ==
  Resolver_resolveFunction(Resolver_declareAndDefine(r, stmt.name), stmt,
                           "FUNCTION")

Resolver_visitPrintStmt(r, stmt) == Resolver_resolveExpr(r, stmt.expression)

Resolver_visitIfStmt(r, stmt) ==
  Resolver_resolveStmt(
    Resolver_resolveStmt(Resolver_resolveExpr(r, stmt.condition), stmt.th),
    stmt.el)

\* A faulty visitVarStmt, which defines the name before it resolves the
\* initializer.
Resolver_visitVarStmt_defineFirst(r, stmt) ==
  Resolver_resolveExpr(
    Resolver_define(Resolver_declare(r, stmt.name), stmt.name),
    stmt.initializer)

Resolver_visitVarStmt(r, stmt) ==
  Resolver_define(
    Resolver_resolveExpr(Resolver_declare(r, stmt.name), stmt.initializer),
    stmt.name)

Resolver_visitWhileStmt(r, stmt) ==
  Resolver_resolveStmt(Resolver_resolveExpr(r, stmt.condition), stmt.body)

Resolver_visitBlockStmt(r, stmt) ==
  Resolver_endScope(Resolver_resolve(Resolver_beginScope(r), stmt.statements))

\* A faulty visitReturnStmt, which reports no error.
Resolver_visitReturnStmt_unchecked(r, stmt) ==
  Resolver_resolveExpr(r, stmt.value)

Resolver_visitReturnStmt(r, stmt) ==
  LET r1 == IF r.currentFunction = "NONE"
              THEN Resolver_error(r, stmt.keyword,
                                  "Can not return from top-level code.")
              ELSE r
      r2 == IF ~stmt.empty /\ r1.currentFunction = "INITIALIZER"
              THEN Resolver_error(r1, stmt.keyword,
                     "Can not return a value from an initializer.")
              ELSE r1
  IN  Resolver_resolveExpr(r2, stmt.value)

RECURSIVE Resolver_resolveMethods(_, _)
Resolver_resolveMethods(r, methods) ==
  IF methods = <<>> THEN r
  ELSE Resolver_resolveMethods(
         Resolver_resolved(r, "Method",
           Resolver_resolveFunction(r, Head(methods),
             IF Head(methods).name.lexeme = "init"
               THEN "INITIALIZER" ELSE "METHOD")),
         Tail(methods))

\* `if (stmt.superClass)`: whether the node's superClass field is an object.
HasSuperClass(stmt) == stmt.superClass.type # "null"

Resolver_visitClassStmt(r, stmt) ==
  LET enclosingClass == r.currentClass
      r1 == Resolver_declareAndDefine([r EXCEPT !.currentClass = "CLASS"],
                                      stmt.name)
      r2 == IF HasSuperClass(stmt) THEN
              LET s1 == [r1 EXCEPT !.currentClass = "SUBCLASS"]
                  s2 == IF stmt.superClass.name.lexeme = stmt.name.lexeme
                          THEN Resolver_error(s1, stmt.superClass.name,
                                 "A class can not inherit from itself.")
                          ELSE s1
                  s3 == Resolver_resolveExpr(s2, stmt.superClass)
              IN  Resolver_setInScope(Resolver_beginScope(s3), "super", TRUE)
            ELSE r1
      r3 == Resolver_setInScope(Resolver_beginScope(r2), "this", TRUE)
      r4 == Resolver_endScope(Resolver_resolveMethods(r3, stmt.methods))
      r5 == IF HasSuperClass(stmt) THEN Resolver_endScope(r4) ELSE r4
  IN  [r5 EXCEPT !.currentClass = enclosingClass]

Resolver_visitLogicalExpr(r, expr) ==
  Resolver_resolveExpr(Resolver_resolveExpr(r, expr.left), expr.right)

Resolver_visitUnaryExpr(r, expr) == Resolver_resolveExpr(r, expr.expr)

Resolver_visitBinaryExpr(r, expr) ==
  Resolver_resolveExpr(Resolver_resolveExpr(r, expr.left), expr.right)

Resolver_visitCallExpr(r, expr) ==
  Resolver_resolveExprs(Resolver_resolveExpr(r, expr.callee), expr.args)

Resolver_visitGroupingExpr(r, expr) == Resolver_resolveExpr(r, expr.expr)

\* What visitVariableExpr did: the node, its name and line, and the lines
\* that the resolver reported for it.
Resolver_read(r, expr, r2) ==
  [r2 EXCEPT !.trace =
     Append(@, [ev |-> "resolvedRead", id |-> expr.id,
                name |-> expr.name.lexeme, line |-> expr.name.line,
                errors |-> SubSeq(r2.errs, Len(r.errs) + 1, Len(r2.errs))])]

Resolver_visitVariableExpr(r, expr) ==
  LET inOwnInitializer ==
        /\ ~Resolver_emptyScopes(r)
        /\ expr.name.lexeme \in DOMAIN Resolver_peekScope(r)
        /\ Resolver_peekScope(r)[expr.name.lexeme] = FALSE
      r1 == IF inOwnInitializer
              THEN Resolver_error(r, expr.name,
                     "Can not read local variable in its own initializer")
              ELSE r
  IN  Resolver_read(r, expr, Resolver_resolveLocal(r1, expr, expr.name))

Resolver_visitAssignExpr(r, expr) ==
  Resolver_resolveLocal(Resolver_resolveExpr(r, expr.expr), expr, expr.name)

Resolver_visitGetterExpr(r, expr) == Resolver_resolveExpr(r, expr.object)

Resolver_visitSetterExpr(r, expr) ==
  Resolver_resolveExpr(Resolver_resolveExpr(r, expr.object), expr.expr)

Resolver_visitThisExpr(r, expr) ==
  LET r1 == IF r.currentClass = "NONE"
              THEN Resolver_error(r, expr.keyword,
                     "Invalid use of keyword \"this\" outside of a class.")
              ELSE r
  IN  Resolver_resolveLocal(r1, expr, expr.keyword)

Resolver_visitSuperExpr(r, expr) ==
  LET r1 == IF r.currentClass = "NONE"
              THEN Resolver_error(r, expr.keyword,
                     "Can not use \"super\" outside a class method.")
              ELSE r
      r2 == IF r1.currentClass # "SUBCLASS"
              THEN Resolver_error(r1, expr.keyword,
                     "Can not use \"super\" in a class with no super class.")
              ELSE r1
  IN  Resolver_resolveLocal(r2, expr, expr.keyword)

\* stmt.accept(this)
Resolver_resolveStmt(r, stmt) ==
  Resolver_resolved(r, stmt.type,
    CASE stmt.type = "Expression" -> Resolver_visitExpressionStmt(r, stmt)
      [] stmt.type = "Fun" -> Resolver_visitFunStmt(r, stmt)
      [] stmt.type = "Print" -> Resolver_visitPrintStmt(r, stmt)
      [] stmt.type = "If" -> Resolver_visitIfStmt(r, stmt)
      [] stmt.type = "Var" -> Resolver_visitVarStmt(r, stmt)
      [] stmt.type = "While" -> Resolver_visitWhileStmt(r, stmt)
      [] stmt.type = "Block" -> Resolver_visitBlockStmt(r, stmt)
      [] stmt.type = "Return" -> Resolver_visitReturnStmt(r, stmt)
      [] stmt.type = "Class" -> Resolver_visitClassStmt(r, stmt))

\* expr.accept(this)
Resolver_resolveExpr(r, expr) ==
  CASE expr.type = "Literal" -> r
    [] expr.type = "Logical" -> Resolver_visitLogicalExpr(r, expr)
    [] expr.type = "Unary" -> Resolver_visitUnaryExpr(r, expr)
    [] expr.type = "Binary" -> Resolver_visitBinaryExpr(r, expr)
    [] expr.type = "Call" -> Resolver_visitCallExpr(r, expr)
    [] expr.type = "Grouping" -> Resolver_visitGroupingExpr(r, expr)
    [] expr.type = "Variable" -> Resolver_visitVariableExpr(r, expr)
    [] expr.type = "Assign" -> Resolver_visitAssignExpr(r, expr)
    [] expr.type = "Getter" -> Resolver_visitGetterExpr(r, expr)
    [] expr.type = "Setter" -> Resolver_visitSetterExpr(r, expr)
    [] expr.type = "This" -> Resolver_visitThisExpr(r, expr)
    [] expr.type = "Super" -> Resolver_visitSuperExpr(r, expr)

\* ---------------------------------------------------------------- runtime
\* The interpreter is `I`: environment (the current frame), envs (the heap of
\* Environment objects, a frame being its values and its enclosing frame, 0
\* for none; frame 1 is globals), instances (the heap of LoxInstance objects),
\* locals (the resolution table), out (the lines printed), budget (the loop
\* iterations and calls left to the statement being executed) and trace, a
\* history of what the parser, the resolver and the execution did.
\* A function is the value [k |-> "fun", declaration, environment,
\* isInitializer], a class [k |-> "class", name, superClass, methods], an
\* instance [k |-> "instance", ref] with ref its place in instances, and
\* clock [k |-> "clock"].

\* The calls and loop iterations one top-level statement may take in the model.
MaxSteps == 40

FunV(declaration, environment, isInitializer) ==
  [k |-> "fun", declaration |-> declaration, environment |-> environment,
   isInitializer |-> isInitializer]

ClassV(name, superClass, methods) ==
  [k |-> "class", name |-> name, superClass |-> superClass, methods |-> methods]

InstanceV(ref) == [k |-> "instance", ref |-> ref]

ClockV == [k |-> "clock"]

\* NaN, a number.
NaNV == [k |-> "num", v |-> 0, nan |-> TRUE]

IsNaN(v) == v.k = "num" /\ "nan" \in DOMAIN v

\* JavaScript's truthiness, as `if (superClass)` and `a && b` apply it.
JsTruthy(v) ==
  CASE v.k \in {"nil", "undefined"} -> FALSE
    [] v.k = "bool" -> v.v
    [] v.k = "num" -> ~IsNaN(v) /\ v.v # 0
    [] v.k = "str" -> v.v # ""
    [] OTHER -> TRUE

\* The outcome of evaluating or executing: c is "normal" (v is the value),
\* "return" (a ReturnException carrying v), "RuntimeError" (with its message
\* and the line of its token), "TypeError" and "Error" (JavaScript errors that
\* are no RuntimeError), or "unbounded" (the budget ran out).
Done(I, v) == [I |-> I, v |-> v, c |-> "normal"]

Returning(I, v) == [I |-> I, v |-> v, c |-> "return"]

RuntimeError(I, token, message) ==
  [I |-> I, v |-> UndefinedV, c |-> "RuntimeError", message |-> message,
   line |-> token.line]

JsError(I, kind, message) ==
  [I |-> I, v |-> UndefinedV, c |-> kind, message |-> message]

Unbounded(I) == [I |-> I, v |-> UndefinedV, c |-> "unbounded"]

Log(I, event) == [I EXCEPT !.trace = Append(@, event)]

\* new Environment(enclosing): the frame is NewEnv(I) in the result.
NewEnv(I) == Len(I.envs) + 1

Environment_new(I, enclosing) ==
  [I EXCEPT !.envs = Append(@, [values |-> EmptyMap, enclosing |-> enclosing])]

Environment_define(I, e, name, value) ==
  [I EXCEPT !.envs[e].values = MapPut(@, name, value)]

\* this.values[name] !== undefined
Environment_has(I, e, name) ==
  /\ name \in DOMAIN I.envs[e].values
  /\ I.envs[e].values[name].k # "undefined"

\* get(name): the frame of the chain from e that has the name, 0 if none.
RECURSIVE Environment_find(_, _, _)
Environment_find(I, e, name) ==
  IF Environment_has(I, e, name) THEN e
  ELSE IF I.envs[e].enclosing # 0
    THEN Environment_find(I, I.envs[e].enclosing, name)
  ELSE 0

Environment_get(I, e, name) ==
  LET f == Environment_find(I, e, name.lexeme)
  IN  IF f # 0 THEN Done(I, I.envs[f].values[name.lexeme])
      ELSE RuntimeError(I, name, "Undefined variable " \o name.lexeme \o ".")

\* ancestor(distance): 0 when the chain ends first, where the code reads
\* `enclosing` of undefined.
RECURSIVE Environment_ancestor(_, _, _)
Environment_ancestor(I, e, distance) ==
  IF distance = 0 THEN e
  ELSE IF I.envs[e].enclosing = 0 THEN 0
  ELSE Environment_ancestor(I, I.envs[e].enclosing, distance - 1)

\* getByString(name)
Environment_getByString(I, e, name) ==
  IF name \in DOMAIN I.envs[e].values THEN I.envs[e].values[name] ELSE UndefinedV

Environment_getAt(I, e, distance, name) ==
  LET a == Environment_ancestor(I, e, distance)
  IN  IF a = 0
        THEN JsError(I, "TypeError", "Cannot read property 'ancestor' of undefined")
        ELSE Done(I, Environment_getByString(I, a, name))

Environment_assign(I, e, name, value) ==
  LET f == Environment_find(I, e, name.lexeme)
  IN  IF f # 0 THEN Done(Environment_define(I, f, name.lexeme, value), value)
      ELSE RuntimeError(I, name,
             "Cannot assign value to undefined variable " \o name.lexeme \o ".")

Environment_assignAt(I, e, distance, name, value) ==
  LET a == Environment_ancestor(I, e, distance)
  IN  IF a = 0
        THEN JsError(I, "TypeError", "Cannot read property 'ancestor' of undefined")
        ELSE Environment_assign(I, a, name, value)

\* LoxClass.findMethod(name): undefined when there is none.
RECURSIVE LoxClass_findMethod(_, _)
LoxClass_findMethod(klass, name) ==
  LET method == IF name \in DOMAIN klass.methods
                  THEN klass.methods[name] ELSE UndefinedV
  IN  IF JsTruthy(method) \/ ~JsTruthy(klass.superClass) THEN method
      ELSE LoxClass_findMethod(klass.superClass, name)

LoxFunction_arity(fun) == Len(fun.declaration.params)

\* A faulty LoxClass.arity, which looks for `init` in the class alone.
LoxClass_arity_ownInit(klass) ==
  IF "init" \in DOMAIN klass.methods
    THEN LoxFunction_arity(klass.methods["init"])
    ELSE 0

LoxClass_arity(klass) ==
  LET init == LoxClass_findMethod(klass, "init")
  IN  IF JsTruthy(init) THEN LoxFunction_arity(init) ELSE 0

\* What bindInstance did: the function, the instance, the bound function,
\* and the frames before (those of I) and after (those of I1).
LoxFunction_bound(I, I1, fun, instance, bound) ==
  Done(Log(I1, [ev |-> "bind", fun |-> fun, instance |-> instance,
                bound |-> bound, before |-> I.envs, after |-> I1.envs]),
       bound)

\* A faulty bindInstance, which defines `this` in the frame that the
\* function has captured instead of a new one.
LoxFunction_bindInstance_inCapturedFrame(I, fun, instance) ==
  LoxFunction_bound(
    I, Environment_define(I, fun.environment, "this", instance),
    fun, instance, fun)

\* bindInstance(instance): the interpreter with the new frame, and the bound
\* function.
LoxFunction_bindInstance(I, fun, instance) ==
  LoxFunction_bound(
    I,
    Environment_define(Environment_new(I, fun.environment), NewEnv(I),
                       "this", instance),
    fun, instance,
    FunV(fun.declaration, NewEnv(I), fun.isInitializer))

\* formatValue(value): 'nil' for null, String(value) otherwise.
formatValue(I, value) ==
  CASE value.k = "nil" -> "nil"
    [] value.k = "undefined" -> "undefined"
    [] value.k = "bool" -> IF value.v THEN "true" ELSE "false"
    [] value.k = "num" ->
         IF IsNaN(value) THEN "NaN"
         ELSE IF "frac" \in DOMAIN value
           THEN Numeral(value.v) \o "." \o value.frac
         ELSE Numeral(value.v)
    [] value.k = "str" -> value.v
    [] value.k = "fun" -> "<fn " \o value.declaration.name.lexeme \o ">"
    [] value.k = "class" -> value.name
    [] value.k = "instance" -> I.instances[value.ref].klass.name \o " instance"
    [] value.k = "clock" -> "[object Object]"

\* printValue(value)
printValue(I, value) == [I EXCEPT !.out = Append(@, formatValue(I, value))]

\* ------------------------------------------------------------ interpreter

\* The Interpreter's constructor: globals with clock and Object.
NewInterpreter ==
  [environment |-> 1,
   envs |-> <<[values |-> [x \in {"clock", "Object"} |->
                             IF x = "clock" THEN ClockV
                             ELSE ClassV("Object", NilV, EmptyMap)],
               enclosing |-> 0]>>,
   instances |-> <<>>,
   locals |-> EmptyMap,
   out |-> <<>>,
   budget |-> MaxSteps,
   now |-> 0,
   trace |-> <<>>]

Interpreter_isTruthy(val) ==
  IF val.k = "nil" \/ (val.k = "bool" /\ val.v = FALSE) THEN FALSE ELSE TRUE

\* typeof v === 'number'
IsNumber(v) == v.k = "num"

\* typeof v === 'string'
IsString(v) == v.k = "str"

\* What a read or an assignment of a variable did: the name, whether the
\* resolution table has the expression and at which depth, the current
\* frame, the frames before and after, and the outcome r.
Interpreter_variableEvent(ev, I, name, expr, r) ==
  [r EXCEPT !.I = Log(@, [ev |-> ev, name |-> name.lexeme,
                          resolved |-> expr.id \in DOMAIN I.locals,
                          depth |-> IF expr.id \in DOMAIN I.locals
                                      THEN I.locals[expr.id] ELSE 0,
                          environment |-> I.environment,
                          before |-> I.envs, after |-> r.I.envs, c |-> r.c,
                          message |-> IF r.c = "normal" THEN "" ELSE r.message,
                          value |-> r.v])]

\* lookupVariable(name, expr)
Interpreter_lookupVariable(I, name, expr) ==
  Interpreter_variableEvent("read", I, name, expr,
    IF expr.id \in DOMAIN I.locals
      THEN Environment_getAt(I, I.environment, I.locals[expr.id], name.lexeme)
      ELSE Environment_get(I, 1, name))

\* LoxInstance.get(name)
LoxInstance_get(I, object, name) ==
  LET inst == I.instances[object.ref]
      method == LoxClass_findMethod(inst.klass, name.lexeme)
  IN  IF name.lexeme \in DOMAIN inst.fields
           /\ inst.fields[name.lexeme].k # "undefined"
        THEN Done(I, inst.fields[name.lexeme])
      ELSE IF JsTruthy(method) THEN LoxFunction_bindInstance(I, method, object)
      ELSE RuntimeError(I, name, "Undefined property " \o name.lexeme \o ".")

\* LoxInstance.set(name, value)
LoxInstance_set(I, object, name, value) ==
  [I EXCEPT !.instances[object.ref].fields = MapPut(@, name.lexeme, value)]

\* A faulty executeBlock, without `finally`: the environment is restored only
\* when the statements complete normally.
Interpreter_restore_withoutFinally(I, previous, c) ==
  IF c = "normal" THEN [I EXCEPT !.environment = previous] ELSE I

\* The finally clause of executeBlock, entered with outcome c.
Interpreter_restore(I, previous, c) == [I EXCEPT !.environment = previous]

\* Number(value), as unary minus applies it.  No string of the model's
\* sources reads as a number, so a string that is not empty gives NaN.
ToNumber(v) ==
  CASE v.k = "num" -> v
    [] v.k = "nil" -> NumV(0)
    [] v.k = "bool" -> NumV(IF v.v THEN 1 ELSE 0)
    [] v.k = "str" -> IF v.v = "" THEN NumV(0) ELSE NaNV
    [] OTHER -> NaNV

Negate(v) == IF IsNaN(v) THEN v ELSE [v EXCEPT !.v = 0 - @]

\* The arithmetic of numbers the model keeps: integers, NaN for what has no
\* integer value.
Quotient(a, b) ==
  IF IsNaN(a) \/ IsNaN(b) \/ b.v = 0 \/ a.v % b.v # 0 THEN NaNV
  ELSE NumV((IF a.v < 0 THEN 0 - ((0 - a.v) \div (IF b.v < 0 THEN 0 - b.v ELSE b.v))
                        ELSE a.v \div (IF b.v < 0 THEN 0 - b.v ELSE b.v))
            * (IF b.v < 0 THEN 0 - 1 ELSE 1))

Arith(operator, a, b) ==
  IF IsNaN(a) \/ IsNaN(b) THEN NaNV
  ELSE CASE operator = "MINUS" -> NumV(a.v - b.v)
         [] operator = "STAR" -> NumV(a.v * b.v)
         [] operator = "PLUS" -> NumV(a.v + b.v)
         [] operator = "SLASH" -> Quotient(a, b)

RECURSIVE Interpreter_execute(_, _)
RECURSIVE Interpreter_evaluate(_, _)
RECURSIVE Interpreter_executeAll(_, _, _)
RECURSIVE Interpreter_evaluateAll(_, _, _)
RECURSIVE Interpreter_whileLoop(_, _)

\* An exception thrown by a call propagates through its caller: the rest of
\* the method, K, runs on the outcome r only when r is normal.
IBind(r, K(_)) == IF r.c # "normal" THEN r ELSE K(r)

\* statements.map((statement) => this.execute(statement)): the value of the
\* last one, undefined for no statement.
Interpreter_executeAll(I, stmts, last) ==
  IF stmts = <<>> THEN Done(I, last)
  ELSE IBind(Interpreter_execute(I, Head(stmts)), LAMBDA r :
       Interpreter_executeAll(r.I, Tail(stmts), r.v))

\* args.map((arg) => this.evaluate(arg)): v is the list of the values.
Interpreter_evaluateAll(I, exprs, values) ==
  IF exprs = <<>> THEN Done(I, values)
  ELSE IBind(Interpreter_evaluate(I, Head(exprs)), LAMBDA r :
       Interpreter_evaluateAll(r.I, Tail(exprs), Append(values, r.v)))

\* executeBlock once its try block has ended with outcome r: the finally
\* clause, and what the block did.
Interpreter_finally(previous, r) ==
  [r EXCEPT !.I =
     Log(Interpreter_restore(r.I, previous, r.c),
         [ev |-> "executeBlock", previous |-> previous,
          environment |-> Interpreter_restore(r.I, previous, r.c).environment,
          c |-> r.c])]

Interpreter_executeBlock(I, stmts, environment) ==
  Interpreter_finally(
    I.environment,
    Interpreter_executeAll([I EXCEPT !.environment = environment], stmts,
                           UndefinedV))

\* params.forEach((param, index) => environment.define(param.lexeme, args[index]))
RECURSIVE LoxFunction_defineParams(_, _, _, _, _)
LoxFunction_defineParams(I, e, params, args, i) ==
  IF i > Len(params) THEN I
  ELSE LoxFunction_defineParams(
         Environment_define(I, e, params[i].lexeme,
                            IF i <= Len(args) THEN args[i] ELSE UndefinedV),
         e, params, args, i + 1)

\* A faulty LoxFunction.call, which yields the value of a ReturnException also
\* for an initializer.
LoxFunction_result_ofReturn(fun, r) ==
  IF r.c = "return" THEN Done(r.I, r.v)
  ELSE IF fun.isInitializer
    THEN Environment_getAt(r.I, fun.environment, 0, "this")
  ELSE Done(r.I, NilV)

\* What LoxFunction.call yields once executeBlock has finished with outcome r,
\* normally or by a ReturnException: `this` of the captured frame for an
\* initializer, else the value of the ReturnException, else nil.
LoxFunction_result(fun, r) ==
  IF fun.isInitializer
    THEN Environment_getAt(r.I, fun.environment, 0, "this")
  ELSE IF r.c = "return" THEN Done(r.I, r.v)
  ELSE Done(r.I, NilV)

\* A call of `fun` whose body ended with outcome r yields result.
LoxFunction_left(fun, r, result) ==
  [result EXCEPT !.I = Log(@, [ev |-> "leave",
                               isInitializer |-> fun.isInitializer,
                               c |-> r.c, carried |-> r.v,
                               outcome |-> result.c, value |-> result.v])]

\* The try and catch of LoxFunction.call: r is the outcome of executeBlock,
\* and an exception that is no ReturnException is thrown on.
LoxFunction_catch(fun, r) ==
  LET result == LoxFunction_left(fun, r, LoxFunction_result(fun, r))
  IN  IF r.c \notin {"return", "normal"} THEN r
      ELSE IF fun.isInitializer /\ result.c = "normal"
        THEN Done(Log(result.I, [ev |-> "initializer",
                                 bound |-> fun.environment, c |-> r.c,
                                 value |-> result.v]),
                  result.v)
      ELSE result

\* The body of `fun` is about to run in frame e: the frames then.
LoxFunction_enter(I, fun, e) ==
  Log(I, [ev |-> "enter", fun |-> fun, environment |-> e, envs |-> I.envs])

\* LoxFunction.call(interpreter, args)
LoxFunction_call(I, fun, args) ==
  IF I.budget = 0 THEN Unbounded(I)
  ELSE LoxFunction_catch(
         fun,
         Interpreter_executeBlock(
           LoxFunction_enter(
             LoxFunction_defineParams(
               Environment_new([I EXCEPT !.budget = @ - 1], fun.environment),
               NewEnv(I), fun.declaration.params, args, 1),
             fun, NewEnv(I)),
           fun.declaration.body, NewEnv(I)))

\* LoxClass.call(interpreter, args)
LoxClass_call(I, klass, args) ==
  LET instance == InstanceV(Len(I.instances) + 1)
      I1 == [I EXCEPT !.instances = Append(@, [klass |-> klass,
                                               fields |-> EmptyMap])]
      init == LoxClass_findMethod(klass, "init")
      construct(bound) ==
        [ev |-> "construct", klass |-> klass.name,
         instances |-> Len(I.instances), init |-> JsTruthy(init),
         bound |-> bound, instance |-> instance]
  IN  IF JsTruthy(init)
        THEN IBind(LoxFunction_bindInstance(I1, init, instance), LAMBDA bound :
             IBind(LoxFunction_call(bound.I, bound.v, args), LAMBDA r :
             Done(Log(r.I, construct(bound.v.environment)), instance)))
        ELSE Done(Log(I1, construct(0)), instance)

\* The call of the native clock: Date.now() / 1000, the reading `now` that
\* the step was given.
Clock_call(I) == Done(I, NumV(I.now))

\* Statement visitors.

Interpreter_visitExpressionStmt(I, stmt) == Interpreter_evaluate(I, stmt.expression)

Interpreter_visitPrintStmt(I, stmt) ==
  IBind(Interpreter_evaluate(I, stmt.expression), LAMBDA value :
  Done(Log(printValue(value.I, value.v),
           [ev |-> "print", line |-> formatValue(value.I, value.v)]),
       NilV))

Interpreter_visitVarStmt(I, stmt) ==
  IBind(Interpreter_evaluate(I, stmt.initializer), LAMBDA value :
  Done(Environment_define(value.I, value.I.environment, stmt.name.lexeme,
                          value.v),
       value.v))

Interpreter_visitBlockStmt(I, stmt) ==
  Interpreter_executeBlock(Environment_new(I, I.environment), stmt.statements,
                           NewEnv(I))

Interpreter_visitIfStmt(I, stmt) ==
  IBind(Interpreter_evaluate(I, stmt.condition), LAMBDA condition :
  Interpreter_execute(condition.I,
                      IF Interpreter_isTruthy(condition.v)
                        THEN stmt.th ELSE stmt.el))

\* The loop of visitWhileStmt.
Interpreter_whileLoop(I, stmt) ==
  IBind(Interpreter_evaluate(I, stmt.condition), LAMBDA condition :
    IF ~Interpreter_isTruthy(condition.v) THEN Done(condition.I, NilV)
    ELSE IF condition.I.budget = 0 THEN Unbounded(condition.I)
    ELSE IBind(Interpreter_execute([condition.I EXCEPT !.budget = @ - 1],
                                   stmt.body),
               LAMBDA body :
         Interpreter_whileLoop(body.I, stmt)))

Interpreter_visitWhileStmt(I, stmt) == Interpreter_whileLoop(I, stmt)

Interpreter_visitFunStmt(I, stmt) ==
  LET fun == FunV(stmt, I.environment, FALSE)
  IN  Done(Environment_define(I, I.environment, stmt.name.lexeme, fun), fun)

\* A faulty visitReturnStmt, which yields the value and throws nothing.
Interpreter_visitReturnStmt_withoutThrow(I, stmt) ==
  IBind(Interpreter_evaluate(I, stmt.value), LAMBDA value :
  Done(Log(value.I, [ev |-> "return", value |-> value.v]), value.v))

\* `throw new ReturnException(value)`
Interpreter_visitReturnStmt(I, stmt) ==
  IBind(Interpreter_evaluate(I, stmt.value), LAMBDA value :
  Returning(Log(value.I, [ev |-> "return", value |-> value.v]), value.v))

\* The reduce of visitClassStmt: a later method of a name replaces an
\* earlier one.
RECURSIVE Interpreter_methods(_, _, _)
Interpreter_methods(methods, environment, acc) ==
  IF methods = <<>> THEN acc
  ELSE Interpreter_methods(Tail(methods), environment,
         MapPut(acc, Head(methods).name.lexeme,
                FunV(Head(methods), environment,
                     Head(methods).name.lexeme = "init")))

\* `if (stmt.superClass) { push the super frame }`
Interpreter_pushSuper(I, stmt, superClass) ==
  IF HasSuperClass(stmt)
    THEN Environment_define(
           [Environment_new(I, I.environment) EXCEPT !.environment = NewEnv(I)],
           NewEnv(I), "super", superClass)
    ELSE I

\* `if (superClass) { this.environment = this.environment.enclosing }`
Interpreter_popSuper(I, stmt, superClass) ==
  IF JsTruthy(superClass)
    THEN [I EXCEPT !.environment = I.envs[I.environment].enclosing]
    ELSE I

\* visitClassStmt from `this.environment.define(stmt.name.lexeme, null)` on:
\* I is the interpreter then, and event what the statement has done so far.
Interpreter_defineClass(I, stmt, superClass, event) ==
  IBind(Environment_assign(
          Interpreter_popSuper(Interpreter_pushSuper(I, stmt, superClass),
                               stmt, superClass),
          Interpreter_popSuper(Interpreter_pushSuper(I, stmt, superClass),
                               stmt, superClass).environment,
          stmt.name,
          ClassV(stmt.name.lexeme, superClass,
                 Interpreter_methods(
                   stmt.methods,
                   Interpreter_pushSuper(I, stmt, superClass).environment,
                   EmptyMap))),
        LAMBDA assigned :
  Done(Log(assigned.I,
           [event EXCEPT !.environment = assigned.I.environment,
                         !.frame = Interpreter_pushSuper(I, stmt, superClass)
                                     .environment,
                         !.c = "normal"]),
       NilV))

Interpreter_visitClassStmt(I, stmt) ==
  IBind(IF HasSuperClass(stmt)
          THEN Interpreter_evaluate(I, stmt.superClass)
          ELSE Done(I, NilV),
        LAMBDA superClass :
    IF JsTruthy(superClass.v) /\ superClass.v.k # "class"
      THEN RuntimeError(
             Log(superClass.I,
                 [ev |-> "class", name |-> stmt.name.lexeme,
                  superClass |-> superClass.v.k, previous |-> I.environment,
                  environment |-> I.environment, frame |-> 0,
                  clause |-> stmt.superClass.id > 0,
                  methods |-> stmt.methods, c |-> "RuntimeError"]),
             stmt.superClass.name, "Super class must be a class.")
      ELSE Interpreter_defineClass(
             Environment_define(superClass.I, superClass.I.environment,
                                stmt.name.lexeme, NilV),
             stmt, superClass.v,
             [ev |-> "class", name |-> stmt.name.lexeme,
              superClass |-> superClass.v.k, previous |-> I.environment,
              environment |-> I.environment, frame |-> 0,
              clause |-> HasSuperClass(stmt) /\ stmt.superClass.id > 0,
              methods |-> stmt.methods, c |-> "RuntimeError"]))

\* Expression visitors.

\* What `super.method` did: the method's name, whether the resolution table
\* has the expression and at which depth, the current frame, the frames
\* before and after, and the outcome r.
Interpreter_superEvent(I, expr, r) ==
  [r EXCEPT !.I = Log(@, [ev |-> "super", name |-> expr.method.lexeme,
                          resolved |-> expr.id \in DOMAIN I.locals,
                          depth |-> IF expr.id \in DOMAIN I.locals
                                      THEN I.locals[expr.id] ELSE 0,
                          environment |-> I.environment,
                          before |-> I.envs, after |-> r.I.envs, c |-> r.c,
                          message |-> IF r.c = "normal" THEN "" ELSE r.message,
                          value |-> r.v])]

Interpreter_visitSuperExpr(I, expr) ==
  Interpreter_superEvent(I, expr,
    IF expr.id \notin DOMAIN I.locals
      THEN JsError(I, "TypeError",
                   "Cannot read property 'ancestor' of undefined")
    ELSE
      IBind(Environment_getAt(I, I.environment, I.locals[expr.id], "super"),
            LAMBDA superClass :
      IBind(Environment_getAt(I, I.environment, I.locals[expr.id] - 1, "this"),
            LAMBDA object :
        IF superClass.v.k \in {"nil", "undefined"}
          THEN JsError(I, "TypeError",
                       "Cannot read property 'findMethod' of "
                         \o (IF superClass.v.k = "nil" THEN "null"
                             ELSE "undefined"))
        ELSE IF superClass.v.k # "class"
          THEN JsError(I, "TypeError",
                       "superClass.findMethod is not a function")
        ELSE IF ~JsTruthy(LoxClass_findMethod(superClass.v, expr.method.lexeme))
          THEN RuntimeError(I, expr.method,
                            "Undefined method " \o expr.method.lexeme \o ".")
        ELSE LoxFunction_bindInstance(
               I, LoxClass_findMethod(superClass.v, expr.method.lexeme),
               object.v))))

Interpreter_visitThisExpr(I, expr) ==
  Interpreter_lookupVariable(I, expr.keyword, expr)

\* What a property access did: the object, the property, the instances
\* before and after, the frames after, and the outcome r.
Interpreter_propertyEvent(ev, I, object, name, r) ==
  [r EXCEPT !.I = Log(@, [ev |-> ev, name |-> name.lexeme, object |-> object,
                          before |-> I.instances, after |-> r.I.instances,
                          envs |-> r.I.envs, c |-> r.c,
                          message |-> IF r.c = "normal" THEN "" ELSE r.message,
                          value |-> r.v])]

Interpreter_visitGetterExpr(I, expr) ==
  IBind(Interpreter_evaluate(I, expr.object), LAMBDA object :
  Interpreter_propertyEvent("get", object.I, object.v, expr.name,
    IF object.v.k = "instance"
      THEN LoxInstance_get(object.I, object.v, expr.name)
      ELSE RuntimeError(object.I, expr.name,
                        "Can not access property from a non-instance value.")))

Interpreter_visitSetterExpr(I, expr) ==
  IBind(Interpreter_evaluate(I, expr.object), LAMBDA object :
    IF object.v.k # "instance"
      THEN Interpreter_propertyEvent("set", object.I, object.v, expr.name,
             RuntimeError(object.I, expr.name, "Only objects have fields"))
      ELSE IBind(Interpreter_evaluate(object.I, expr.expr), LAMBDA value :
           Interpreter_propertyEvent("set", value.I, object.v, expr.name,
             Done(LoxInstance_set(value.I, object.v, expr.name, value.v),
                  value.v))))

\* fun.arity() of a callable.
Callable_arity(fun) ==
  CASE fun.k = "fun" -> LoxFunction_arity(fun)
    [] fun.k = "class" -> LoxClass_arity(fun)
    [] OTHER -> 0

\* fun.call(this, args) of a callable.
Callable_call(I, fun, args) ==
  CASE fun.k = "fun" -> LoxFunction_call(I, fun, args)
    [] fun.k = "class" -> LoxClass_call(I, fun, args)
    [] OTHER -> Clock_call(I)

\* What visitCallExpr does with a callee that has no `call`.
NotCallable(callee) ==
  [ev |-> "notCallable", callee |-> callee.k,
   c |-> IF callee.k \in {"nil", "undefined"}
           THEN "TypeError" ELSE "RuntimeError"]

\* What visitCallExpr did: the callee, the number of arguments, the number
\* of events that the call itself recorded (none when no body was entered
\* and no instance made) and the outcome r.
Interpreter_callEvent(callee, args, r) ==
  [r EXCEPT !.I = Log(@, [ev |-> "call", callee |-> callee,
                          args |-> Len(args.v),
                          ran |-> Len(r.I.trace) - Len(args.I.trace),
                          c |-> r.c,
                          message |-> IF r.c \in {"normal", "unbounded"}
                                        THEN "" ELSE r.message])]

\* `if (!(callee as LoxCallable).call)`: reading a property of null or
\* undefined throws a TypeError; a number, a boolean, a string and an
\* instance have no `call`.
Interpreter_visitCallExpr(I, expr) ==
  IBind(Interpreter_evaluate(I, expr.callee), LAMBDA callee :
  IBind(Interpreter_evaluateAll(callee.I, expr.args, <<>>), LAMBDA args :
  Interpreter_callEvent(callee.v, args,
    IF callee.v.k \in {"nil", "undefined"}
      THEN JsError(Log(args.I, NotCallable(callee.v)), "TypeError",
                   "Cannot read property 'call' of null")
    ELSE IF callee.v.k \notin {"fun", "class", "clock"}
      THEN RuntimeError(Log(args.I, NotCallable(callee.v)), expr.paren,
                        "Only functions and classes are callable.")
    ELSE IF Len(args.v) # Callable_arity(callee.v)
      THEN RuntimeError(args.I, expr.paren,
             "Expected " \o Numeral(Callable_arity(callee.v))
               \o " arguments but got " \o Numeral(Len(args.v)) \o ".")
    ELSE Callable_call(args.I, callee.v, args.v))))

Interpreter_visitLiteralExpr(I, expr) == Done(I, expr.value)

\* What visitUnaryExpr did: its operator, the value of its operand and its
\* outcome r.
Interpreter_unaryEvent(expr, val, r) ==
  [r EXCEPT !.I = Log(@, [ev |-> "unary", operator |-> expr.operator.type,
                          operand |-> val, c |-> r.c, value |-> r.v])]

Interpreter_visitUnaryExpr(I, expr) ==
  IBind(Interpreter_evaluate(I, expr.expr), LAMBDA val :
  Interpreter_unaryEvent(expr, val.v,
    IF expr.operator.type = "MINUS"
      THEN Done(val.I, Negate(ToNumber(val.v)))
    ELSE IF expr.operator.type = "BANG"
      THEN Done(val.I, BoolV(~Interpreter_isTruthy(val.v)))
    ELSE JsError(val.I, "Error", "PANIK: You should have never reached here!")))

\* A faulty checkNumberOperands, which throws with the message of
\* checkStringOperands.
Interpreter_checkNumberOperands_stringsMessage(I, operator, left, right) ==
  IF IsNumber(left) /\ IsNumber(right) THEN Done(I, NilV)
  ELSE RuntimeError(I, operator, "Operands must be strings.")

Interpreter_checkNumberOperands(I, operator, left, right) ==
  IF IsNumber(left) /\ IsNumber(right) THEN Done(I, NilV)
  ELSE RuntimeError(I, operator, "Operands must be numbers.")

Interpreter_checkStringOperands(I, operator, left, right) ==
  IF IsString(left) /\ IsString(right) THEN Done(I, NilV)
  ELSE RuntimeError(I, operator, "Operands must be strings.")

\* The value of a case of visitBinaryExpr whose operands passed the check.
Interpreter_binaryValue(type, left, right) ==
  CASE type \in {"MINUS", "SLASH", "STAR", "PLUS"} -> Arith(type, left, right)
    [] type = "PLUS_PLUS" -> StrV(left.v \o right.v)
    [] type = "LESS" ->
         BoolV(~IsNaN(left) /\ ~IsNaN(right) /\ left.v < right.v)
    [] type = "LESS_EQUAL" ->
         BoolV(~IsNaN(left) /\ ~IsNaN(right) /\ left.v <= right.v)

\* What visitBinaryExpr did: its operator, the values of its operands and
\* its outcome r.
Interpreter_binaryEvent(expr, left, right, r) ==
  [r EXCEPT !.I = Log(@, [ev |-> "binary", operator |-> expr.operator.type,
                          left |-> left, right |-> right, c |-> r.c,
                          message |-> IF r.c = "normal" THEN "" ELSE r.message,
                          value |-> r.v])]

Interpreter_visitBinaryExpr(I, expr) ==
  IBind(Interpreter_evaluate(I, expr.left), LAMBDA left :
  IBind(Interpreter_evaluate(left.I, expr.right), LAMBDA right :
  Interpreter_binaryEvent(expr, left.v, right.v,
    IF expr.operator.type
         \in {"MINUS", "SLASH", "STAR", "PLUS", "LESS", "LESS_EQUAL"}
      THEN IBind(Interpreter_checkNumberOperands(right.I, expr.operator,
                                                 left.v, right.v),
                 LAMBDA checked :
           Done(right.I,
                Interpreter_binaryValue(expr.operator.type, left.v, right.v)))
    ELSE IF expr.operator.type = "PLUS_PLUS"
      THEN IBind(Interpreter_checkStringOperands(right.I, expr.operator,
                                                 left.v, right.v),
                 LAMBDA checked :
           Done(right.I,
                Interpreter_binaryValue(expr.operator.type, left.v, right.v)))
    ELSE JsError(right.I, "Error",
           "PANIK: You should have never reached here! Unkown operator: "
             \o expr.operator.type))))

Interpreter_visitGroupingExpr(I, expr) == Interpreter_evaluate(I, expr.expr)

Interpreter_visitVariableExpr(I, expr) ==
  Interpreter_lookupVariable(I, expr.name, expr)

Interpreter_visitAssignExpr(I, expr) ==
  IBind(Interpreter_evaluate(I, expr.expr), LAMBDA value :
  Interpreter_variableEvent("assign", value.I, expr.name, expr,
    IF expr.id \in DOMAIN value.I.locals
      THEN Environment_assignAt(value.I, value.I.environment,
                                value.I.locals[expr.id], expr.name, value.v)
      ELSE Environment_assign(value.I, 1, expr.name, value.v)))

Interpreter_visitLogicalExpr(I, expr) ==
  IBind(Interpreter_evaluate(I, expr.left), LAMBDA left :
    IF expr.operator.type = "AND" /\ ~Interpreter_isTruthy(left.v)
      THEN left
    ELSE IF expr.operator.type = "OR" /\ Interpreter_isTruthy(left.v)
      THEN left
    ELSE Interpreter_evaluate(left.I, expr.right))

\* stmt.accept(this)
Stmt_accept(I, stmt) ==
  CASE stmt.type = "Expression" -> Interpreter_visitExpressionStmt(I, stmt)
    [] stmt.type = "Print" -> Interpreter_visitPrintStmt(I, stmt)
    [] stmt.type = "Var" -> Interpreter_visitVarStmt(I, stmt)
    [] stmt.type = "Block" -> Interpreter_visitBlockStmt(I, stmt)
    [] stmt.type = "If" -> Interpreter_visitIfStmt(I, stmt)
    [] stmt.type = "While" -> Interpreter_visitWhileStmt(I, stmt)
    [] stmt.type = "Fun" -> Interpreter_visitFunStmt(I, stmt)
    [] stmt.type = "Return" -> Interpreter_visitReturnStmt(I, stmt)
    [] stmt.type = "Class" -> Interpreter_visitClassStmt(I, stmt)

\* execute(stmt), which the history records.
Interpreter_execute(I, stmt) ==
  Stmt_accept(Log(I, [ev |-> "execute", type |-> stmt.type]), stmt)

\* expr.accept(this)
Interpreter_evaluate(I, expr) ==
  CASE expr.type = "Literal" -> Interpreter_visitLiteralExpr(I, expr)
    [] expr.type = "Logical" -> Interpreter_visitLogicalExpr(I, expr)
    [] expr.type = "Unary" -> Interpreter_visitUnaryExpr(I, expr)
    [] expr.type = "Binary" -> Interpreter_visitBinaryExpr(I, expr)
    [] expr.type = "Call" -> Interpreter_visitCallExpr(I, expr)
    [] expr.type = "Grouping" -> Interpreter_visitGroupingExpr(I, expr)
    [] expr.type = "Variable" -> Interpreter_visitVariableExpr(I, expr)
    [] expr.type = "Assign" -> Interpreter_visitAssignExpr(I, expr)
    [] expr.type = "Getter" -> Interpreter_visitGetterExpr(I, expr)
    [] expr.type = "Setter" -> Interpreter_visitSetterExpr(I, expr)
    [] expr.type = "This" -> Interpreter_visitThisExpr(I, expr)
    [] expr.type = "Super" -> Interpreter_visitSuperExpr(I, expr)

\* ----------------------------------------------------------------- driver

Init ==
  /\ source \in Sources
  /\ pc = "lex"
  /\ lexer = NewLexer
  /\ tokens = <<>>
  /\ statements = <<>>
  /\ interp = NewInterpreter
  /\ index = 0
  /\ lastValue = UndefinedV
  /\ hadError = FALSE
  /\ hadRuntimeError = FALSE
  /\ stdout = <<>>
  /\ stderr = <<>>
  /\ exitCode = -1

\* One iteration of the loop of Lexer.scanTokens.
ScanToken ==
  /\ pc = "lex"
  /\ ~Lexer_isAtEnd(lexer)
  /\ LET r == Lexer_scanToken([lexer EXCEPT !.start = lexer.current])
     IN  /\ lexer' = r.L
         /\ stderr' = stderr \o reportAll(r.diag)
         /\ pc' = IF r.loops THEN "lexer loops" ELSE "lex"
  /\ UNCHANGED <<source, tokens, statements, interp, index, lastValue,
                 hadError, hadRuntimeError, stdout, exitCode>>

\* The end of Lexer.scanTokens: the EOF token.
ScanTokensEnd ==
  /\ pc = "lex"
  /\ Lexer_isAtEnd(lexer)
  /\ tokens' = Append(lexer.tokens,
                      [type |-> "EOF", lexeme |-> "end", literal |-> NilV,
                       line |-> lexer.line])
  /\ pc' = "parse"
  /\ UNCHANGED <<source, lexer, statements, interp, index, lastValue,
                 hadError, hadRuntimeError, stdout, stderr, exitCode>>

\* run(): new Parser(tokens).parse(), and the throw of parser.parseError.
Parse ==
  /\ pc = "parse"
  /\ \E r \in {Parser_parse} :
         /\ statements' = r.n
         /\ interp' = [interp EXCEPT !.trace = @ \o r.p.trace]
         /\ stderr' = stderr \o r.p.errs
         /\ hadError' = (hadError \/ r.p.parseError)
         /\ pc' = IF r.p.parseError THEN "exit" ELSE "resolve"
  /\ UNCHANGED <<source, lexer, tokens, index, lastValue,
                 hadRuntimeError, stdout, exitCode>>

\* run(): new Resolver(interpreter).resolve(statements), and the throw of
\* resolver.resolveError.
Resolve ==
  /\ pc = "resolve"
  /\ \E r \in {Resolver_resolve(NewResolver(interp.locals), statements)} :
         /\ interp' = [interp EXCEPT !.locals = r.locals,
                                     !.trace = @ \o r.trace]
         /\ stderr' = stderr \o r.errs
         /\ hadError' = (hadError \/ r.resolveError)
         /\ pc' = IF r.resolveError THEN "exit" ELSE "interpret"
  /\ UNCHANGED <<source, lexer, tokens, statements, index, lastValue,
                 hadRuntimeError, stdout, exitCode>>

\* The readings the clock may give.
Clock == {0, 1}

\* The interpreter as it enters a top-level statement.
Enter(now) == [interp EXCEPT !.out = <<>>, !.budget = MaxSteps, !.now = now]

\* One iteration of the map of Interpreter.interpret, the execution of one
\* top-level statement, and the catch clause of run() when it throws: a
\* RuntimeError is reported, any other error leaves run() and ends the process.
Execute ==
  /\ pc = "interpret"
  /\ index < Len(statements)
  /\ \E now \in Clock :
       \E r \in {Interpreter_execute(Enter(now), statements[index + 1])} :
           /\ interp' = [r.I EXCEPT !.now = 0]
           /\ stdout' = stdout \o r.I.out
           /\ index' = IF r.c = "normal" THEN index + 1 ELSE index
           /\ lastValue' = IF r.c = "normal" THEN r.v ELSE lastValue
           /\ hadRuntimeError' = (hadRuntimeError \/ r.c = "RuntimeError")
           /\ stderr' = CASE r.c = "RuntimeError" -> Append(stderr, runtimeError(r))
                          [] r.c \in {"TypeError", "Error"} ->
                               Append(stderr, "Uncaught " \o r.c \o ": " \o r.message)
                          [] r.c = "return" -> Append(stderr, "Uncaught ReturnException")
                          [] OTHER -> stderr
           /\ pc' = CASE r.c = "normal" -> "interpret"
                      [] r.c = "RuntimeError" -> "exit"
                      [] r.c = "unbounded" -> "unbounded"
                      [] OTHER -> "crashed"
           /\ exitCode' = IF r.c \in {"TypeError", "Error", "return"}
                            THEN 1 ELSE exitCode
  /\ UNCHANGED <<source, lexer, tokens, statements, hadError>>

\* run(): printValue of what Interpreter.interpret returned.
InterpretEnd ==
  /\ pc = "interpret"
  /\ index = Len(statements)
  /\ stdout' = Append(stdout, formatValue(interp, lastValue))
  /\ pc' = "exit"
  /\ UNCHANGED <<source, lexer, tokens, statements, interp, index, lastValue,
                 hadError, hadRuntimeError, stderr, exitCode>>

\* A faulty runFile, which does not look at hadRuntimeError.
Exit_ignoringRuntimeError ==
  /\ pc = "exit"
  /\ exitCode' = IF hadError THEN 65 ELSE 0
  /\ pc' = "done"
  /\ UNCHANGED <<source, lexer, tokens, statements, interp, index, lastValue,
                 hadError, hadRuntimeError, stdout, stderr>>

\* runFile(), after run() returned.
Exit ==
  /\ pc = "exit"
  /\ exitCode' = IF hadError THEN 65 ELSE IF hadRuntimeError THEN 70 ELSE 0
  /\ pc' = "done"
  /\ UNCHANGED <<source, lexer, tokens, statements, interp, index, lastValue,
                 hadError, hadRuntimeError, stdout, stderr>>

Next ==
  \/ ScanToken
  \/ ScanTokensEnd
  \/ Parse
  \/ Resolve
  \/ Execute
  \/ InterpretEnd
  \/ Exit

Spec == Init /\ [][Next]_vars

\* ------------------------------------------------------------ properties

\* The events the interpreter has recorded so far.
Events == {interp.trace[i] : i \in DOMAIN interp.trace}

\* The run is over: runFile has exited or an error has left run().
Ended == pc \in {"done", "crashed"}

IsPrefix(p, s) == Len(s) >= Len(p) /\ SubSeq(s, 1, Len(p)) = p

\* C1: every class statement that completes without a runtime error leaves
\* the current environment the frame that was current before it, whatever its
\* superclass evaluates to and wherever the class is declared.
C1_ClassStmtKeepsEnvironment ==
  \A e \in Events :
    (e.ev = "class" /\ e.c = "normal") => e.environment = e.previous

\* C2: whenever executeBlock finishes (normally, by the return signal or by a
\* propagating runtime error) the current environment is again the frame
\* that was current when it was entered.
C2_ExecuteBlockRestores ==
  \A e \in Events : e.ev = "executeBlock" => e.environment = e.previous

\* A run in which nested blocks and calls have been left normally, by a
\* return and by a runtime error.
C2_Witness ==
  /\ \E e \in Events : e.ev = "executeBlock" /\ e.c = "normal" /\ e.previous # 1
  /\ \E e \in Events : e.ev = "executeBlock" /\ e.c = "return" /\ e.previous # 1
  /\ \E e \in Events :
       e.ev = "executeBlock" /\ e.c = "RuntimeError" /\ e.previous # 1

\* C3: a class statement whose superclass evaluates to a value that is not a
\* class raises "Super class must be a class." and binds no class.
C3_SuperClassMustBeAClass ==
  \A e \in Events :
    (e.ev = "class" /\ e.superClass # "class") => e.c = "RuntimeError"

\* C4: calling a value that is not callable raises the RuntimeError "Only
\* functions and classes are callable.", which the driver reports, and the
\* run exits with code 70 and ends in no other way.
C4_NotCallableIsRuntimeError ==
  \A e \in Events :
    e.ev = "notCallable" =>
      /\ e.c = "RuntimeError"
      /\ hadRuntimeError
      /\ stderr # <<>>
      /\ IsPrefix("Only functions and classes are callable.",
                  stderr[Len(stderr)])
      /\ pc \in {"exit", "done"}
      /\ pc = "done" => exitCode = 70

\* The sources that use `super` in a class written without a `<` clause.
SuperWithoutClause == {SrcSuperNoClause, SrcSuperNoClauseCall}

\* C5: `super` inside a class written without a `<` clause is a resolve
\* error: the resolver sets resolveError and the program is never executed.
C5_SuperNeedsDeclaredSuperclass ==
  source \in SuperWithoutClause =>
    /\ pc # "interpret"
    /\ index = 0
    /\ pc \in {"exit", "done"} => hadError

\* C6: the counter that make() returns yields 1, 2, 3 on three successive
\* calls, and the counters of two calls of make() count independently.
C6_ClosureCapture ==
  Ended =>
    /\ source \in {SrcCounter, SrcCounterClass} =>
         IsPrefix(<<"1", "2", "3">>, stdout)
    /\ source = SrcTwoCounters => IsPrefix(<<"1", "2", "1">>, stdout)

\* C7: a variable use inside a function declared in a block, before a later
\* `var` of the same name in that block, reads and writes the outer binding
\* that was visible at the use site on every call.
C7_ResolverMonotonicity ==
  Ended =>
    /\ source \in {SrcShadow, SrcShadowClass} =>
         stdout = <<"outer", "outer", "set", "inner", "set", "global", "nil">>
    /\ source = SrcShadowGlobal =>
         stdout = <<"global", "global", "block", "again", "nil">>

\* C8: calling a class yields a fresh instance of that class; when the class
\* or a superclass has `init`, it has run once with `this` bound to that
\* instance; and every invocation of an initializer, ended by a bare return
\* or by no return, yields the instance bound as `this`.
C8_InitializerIdentity ==
  \A i \in DOMAIN interp.trace :
    LET e == interp.trace[i]
    IN  /\ e.ev = "construct" =>
             /\ e.instance.k = "instance"
             /\ e.instance.ref = e.instances + 1
             /\ interp.instances[e.instance.ref].klass.name = e.klass
             /\ e.init =>
                  /\ Cardinality({j \in 1..(i - 1) :
                       /\ interp.trace[j].ev = "initializer"
                       /\ interp.trace[j].bound = e.bound}) = 1
                  /\ interp.envs[e.bound].values["this"] = e.instance
        /\ e.ev = "initializer" =>
             /\ e.value.k = "instance"
             /\ e.value = interp.envs[e.bound].values["this"]

\* A run that has constructed instances of classes with and without `init`
\* and has invoked initializers ending in a return and in no return, more
\* often than it has constructed.
C8_Witness ==
  /\ \E e \in Events : e.ev = "construct" /\ e.init
  /\ \E e \in Events : e.ev = "construct" /\ ~e.init
  /\ \E e \in Events : e.ev = "initializer" /\ e.c = "return"
  /\ \E e \in Events : e.ev = "initializer" /\ e.c = "normal"
  /\ Cardinality({i \in DOMAIN interp.trace :
                    interp.trace[i].ev = "initializer"})
       > Cardinality({i \in DOMAIN interp.trace :
                        interp.trace[i].ev = "construct"})

\* The sources with one static error each.
StaticErrors ==
  {SrcReturnTop, SrcInheritSelf, SrcOwnInitializer, SrcThisOutside,
   SrcInitReturnsValue}

\* One step of a run, as C9 allows it.
C9_Step ==
  /\ pc' = "parse" => pc = "lex"
  /\ pc' = "resolve" => pc = "parse" /\ ~hadError'
  /\ pc' = "interpret" => pc \in {"resolve", "interpret"} /\ ~hadError'
  /\ hadError' => UNCHANGED <<index, lastValue, stdout>>
  /\ (hadError /\ pc = "exit") => exitCode' = 65
  /\ (source \in StaticErrors /\ pc = "resolve") => hadError'

\* C9: the stages run in the order lex, parse, resolve, interpret; after a
\* parse error neither the resolver nor the interpreter runs, after a resolve
\* error the interpreter does not run, and the run exits with code 65; each
\* of the five sources with a static error is such a run.
C9_StaticErrorsGate == [][C9_Step]_vars

\* A run on a source with a static error has exited with code 65.
C9_Witness ==
  source \in StaticErrors /\ pc = "done" /\ exitCode = 65 /\ index = 0

\* The lines the lexer writes for an error.
LexErrors ==
  {reportError(line, "", message) :
     line \in 1..Len(source) + 1,
     message \in {"Unexpected character", "Unterminated string"}}

\* C10: no statement of a source with a lex error is executed, and the run
\* exits with code 65.
C10_LexErrorAborts ==
  (\E i \in DOMAIN stderr : stderr[i] \in LexErrors) =>
    /\ pc # "interpret"
    /\ index = 0
    /\ stdout = <<>>
    /\ pc = "done" => exitCode = 65

\* One step of a run, as C11 allows it.
C11_Step ==
  /\ (hadRuntimeError' /\ ~hadRuntimeError) =>
       /\ pc' = "exit"
       /\ index' = index
       /\ Len(stderr') = Len(stderr) + 1
  /\ hadRuntimeError => UNCHANGED <<index, lastValue, stdout, interp>>
  /\ (pc' = "done" /\ hadRuntimeError) => exitCode' = 70
  /\ (pc' = "done" /\ ~hadRuntimeError /\ ~hadError) => exitCode' = 0
  /\ (pc' = "done" /\ source = SrcErrorThenPrint) =>
       /\ hadRuntimeError
       /\ stdout' = <<"1", "2">>

\* C11: the statement that raises a RuntimeError is the last one the run
\* executes, and nothing is printed after it; runFile then exits with code
\* 70, and with code 0 after a run without an error.
C11_RuntimeErrorAborts == [][C11_Step]_vars

\* A run has exited with code 70 after a RuntimeError in its second
\* statement, with a statement left that it has not executed.
C11_Witness ==
  /\ source = SrcErrorThenPrint
  /\ pc = "done"
  /\ exitCode = 70
  /\ index = 1
  /\ Len(statements) = 3

\* The lines the print statements executed so far have produced, in order.
Printed ==
  LET prints == SelectSeq(interp.trace, LAMBDA e : e.ev = "print")
  IN  [i \in DOMAIN prints |-> prints[i].line]

\* C12: standard output holds the lines of the executed print statements,
\* in execution order, and nothing else; the run of `print 1 + 2 * 3;` ends
\* with the single line 7.
C12_StdoutIsPrints ==
  /\ stdout = Printed
  /\ (source = SrcPrintArith /\ pc = "done") => stdout = <<"7">>

\* The types of the tokens scanTokens has returned.
TokenTypes == [i \in DOMAIN tokens |-> tokens[i].type]

\* C13: the lexer consumes a `//` comment up to the next newline or the end
\* of the source, with no token and no diagnostic for it: `// a b`, a newline
\* and `print 1;` lex to PRINT NUMBER SEMICOLON EOF, and `print 1; //` to the
\* same tokens.
C13_LineComment ==
  /\ source \in {SrcComment, SrcCommentAtEnd} =>
       /\ pc # "lexer loops"
       /\ stderr = <<>>
       /\ pc # "lex" => TokenTypes = <<"PRINT", "NUMBER", "SEMICOLON", "EOF">>

\* The diagnostics the lexer owes each source with lex errors: one for each
\* unknown character and one for each unterminated string.
LexDiagnostics ==
  CASE source \in {SrcUnexpectedChar, SrcUnexpectedOnly, SrcUnterminated} -> 1
    [] source = SrcLexErrors -> 3
    [] OTHER -> 0

\* One step of a run, as C14 allows it.
C14_Step ==
  /\ pc' # "lexer loops"
  /\ (pc = "lex" /\ pc' = "lex") => lexer'.current > lexer.current
  /\ (pc = "lex" /\ pc' = "parse") =>
       /\ tokens'[Len(tokens')].type = "EOF"
       /\ \A i \in 1..(Len(tokens') - 1) : tokens'[i].type # "EOF"
       /\ Len(stderr') = LexDiagnostics

\* C14: scanTokens terminates on every source, each scanToken consumes at
\* least one character, the tokens returned end with the only EOF token, and
\* each unknown character and each unterminated string has one diagnostic.
C14_LexerTotal == [][C14_Step]_vars

\* The evaluations of binary expressions recorded so far.
BinaryEvents == {e \in Events : e.ev = "binary"}

\* The boolean a comparison of two numbers yields.
Compared(operator, a, b) ==
  BoolV(/\ ~IsNaN(a)
        /\ ~IsNaN(b)
        /\ CASE operator = "LESS" -> a.v < b.v
             [] operator = "LESS_EQUAL" -> a.v <= b.v
             [] operator = "GREATER" -> a.v > b.v
             [] operator = "GREATER_EQUAL" -> a.v >= b.v)

\* C15: a comparison by <, <=, > or >= of two numbers yields the boolean of
\* that comparison, and of operands that are not both numbers raises the
\* RuntimeError "Operands must be numbers."; it ends in no other way.
C15_Comparison ==
  \A e \in BinaryEvents :
    e.operator \in {"LESS", "LESS_EQUAL", "GREATER", "GREATER_EQUAL"} =>
      IF IsNumber(e.left) /\ IsNumber(e.right)
        THEN e.c = "normal" /\ e.value = Compared(e.operator, e.left, e.right)
        ELSE e.c = "RuntimeError" /\ e.message = "Operands must be numbers."

\* C16: == and != evaluate to a boolean for every pair of values and never
\* raise: == is true exactly for two nils and for two values of one kind
\* with the same value, and != is its negation.
C16_Equality ==
  \A e \in BinaryEvents :
    e.operator \in {"EQUAL_EQUAL", "BANG_EQUAL"} =>
      /\ e.c = "normal"
      /\ e.value = BoolV((e.left = e.right) = (e.operator = "EQUAL_EQUAL"))

\* The evaluations of unary expressions recorded so far.
UnaryEvents == {e \in Events : e.ev = "unary"}

\* C17: unary - yields the negation of a number and raises a RuntimeError,
\* with no value, for an operand that is not a number; unary ! never raises
\* and yields true exactly for nil and false.
C17_Unary ==
  \A e \in UnaryEvents :
    /\ e.operator = "MINUS" =>
         IF IsNumber(e.operand)
           THEN e.c = "normal" /\ e.value = Negate(e.operand)
           ELSE e.c = "RuntimeError"
    /\ e.operator = "BANG" =>
         /\ e.c = "normal"
         /\ e.value = BoolV(e.operand \in {NilV, BoolV(FALSE)})

\* Whether v is the number that operator yields for the integers a and b.
IsResult(operator, a, b, v) ==
  /\ IsNumber(v)
  /\ CASE operator = "MINUS" -> v.v = a.v - b.v
       [] operator = "STAR" -> v.v = a.v * b.v
       [] operator = "PLUS" -> v.v = a.v + b.v
       [] operator = "SLASH" -> (b.v # 0 /\ a.v % b.v = 0) => v.v * b.v = a.v

\* C18: -, *, / and + yield a number for two numbers and otherwise raise
\* "Operands must be numbers."; ++ yields the concatenation of two strings
\* and otherwise raises "Operands must be strings.".
C18_Arithmetic ==
  \A e \in BinaryEvents :
    /\ e.operator \in {"MINUS", "STAR", "SLASH", "PLUS"} =>
         IF IsNumber(e.left) /\ IsNumber(e.right)
           THEN /\ e.c = "normal"
                /\ (~IsNaN(e.left) /\ ~IsNaN(e.right)) =>
                     IsResult(e.operator, e.left, e.right, e.value)
           ELSE e.c = "RuntimeError" /\ e.message = "Operands must be numbers."
    /\ e.operator = "PLUS_PLUS" =>
         IF IsString(e.left) /\ IsString(e.right)
           THEN e.c = "normal" /\ e.value = StrV(e.left.v \o e.right.v)
           ELSE e.c = "RuntimeError" /\ e.message = "Operands must be strings."

\* A run has subtracted, multiplied, divided and added numbers, has
\* concatenated two strings, and has raised an error for the + of two strings.
C18_Witness ==
  /\ \A operator \in {"MINUS", "STAR", "SLASH", "PLUS"} :
       \E e \in BinaryEvents :
         e.operator = operator /\ e.c = "normal" /\ IsNumber(e.value)
  /\ \E e \in BinaryEvents :
       e.operator = "PLUS_PLUS" /\ e.c = "normal" /\ e.value = StrV("ab")
  /\ \E e \in BinaryEvents :
       /\ e.operator = "PLUS"
       /\ IsString(e.left)
       /\ IsString(e.right)
       /\ e.c = "RuntimeError"
  /\ pc = "done"
  /\ exitCode = 70
  /\ stdout = <<"5", "6", "2", "3", "ab">>

\* The reads and assignments of variables recorded so far.
VariableEvents == {e \in Events : e.ev \in {"read", "assign"}}

\* The frame depth links above frame environment among the frames envs, 0 if
\* there is none.
FrameAt(envs, environment, depth) ==
  Environment_ancestor([envs |-> envs], environment, depth)

\* Whether only frame f differs between the frames before and after.
TouchesOnly(f, before, after) ==
  /\ DOMAIN after = DOMAIN before
  /\ \A g \in DOMAIN before : g # f => after[g] = before[g]

\* C19: a read or an assignment without an entry in the resolution table
\* consults only globals, raising "Undefined variable X." for a read and
\* "Cannot assign value to undefined variable X.", with no binding made, for
\* an assignment of a name never defined there; one with an entry at depth d
\* touches only the frame d links above the current one.
C19_VariableDispatch ==
  \A e \in VariableEvents :
    LET f == IF e.resolved THEN FrameAt(e.before, e.environment, e.depth) ELSE 1
        defined == f # 0 /\ e.name \in DOMAIN e.before[f].values
    IN  /\ TouchesOnly(f, e.before, e.after)
        /\ (e.ev = "read" /\ e.c = "normal") =>
             /\ f # 0
             /\ e.value = IF defined THEN e.before[f].values[e.name]
                          ELSE UndefinedV
        /\ (e.ev = "assign" /\ e.c = "normal") =>
             /\ f # 0
             /\ e.name \in DOMAIN e.after[f].values
             /\ e.after[f].values[e.name] = e.value
        /\ (~e.resolved /\ ~defined) =>
             /\ e.c = "RuntimeError"
             /\ e.after = e.before
             /\ e.message =
                  (IF e.ev = "read" THEN "Undefined variable "
                   ELSE "Cannot assign value to undefined variable ")
                    \o e.name \o "."

\* The calls of callable values recorded so far.
CallEvents ==
  {e \in Events : e.ev = "call" /\ e.callee.k \in {"fun", "class", "clock"}}

\* The arity of a callable: the parameter count of a function, that of the
\* nearest `init` on the superclass chain of a class and 0 when there is
\* none, and 0 for clock.
RECURSIVE ArityOf(_)
ArityOf(callee) ==
  CASE callee.k = "fun" -> Len(callee.declaration.params)
    [] callee.k = "clock" -> 0
    [] callee.k = "class" ->
         IF "init" \in DOMAIN callee.methods
           THEN Len(callee.methods["init"].declaration.params)
         ELSE IF callee.superClass.k = "class" THEN ArityOf(callee.superClass)
         ELSE 0

\* C20: a call with a number of arguments other than the arity of the
\* callee raises "Expected N arguments but got M." and enters no body; a
\* call with that number of arguments raises no such error of its own.
C20_Arity ==
  \A e \in CallEvents :
    IF e.args # ArityOf(e.callee)
      THEN /\ e.c = "RuntimeError"
           /\ e.ran = 0
           /\ e.message = "Expected " \o Numeral(ArityOf(e.callee))
                            \o " arguments but got " \o Numeral(e.args) \o "."
      ELSE ~(e.c = "RuntimeError" /\ e.ran = 0)

\* A run has called a function, a class that inherits `init`, a class
\* without `init` and clock with as many arguments as their arities, and
\* then a function of two parameters with one argument.
C20_Witness ==
  /\ source = SrcArity
  /\ pc = "done"
  /\ exitCode = 70
  /\ stdout = <<"1", "3">>
  /\ \E e \in CallEvents :
       e.callee.k = "fun" /\ e.args = 1 /\ e.c = "RuntimeError" /\ e.ran = 0
  /\ \E e \in CallEvents :
       e.callee.k = "class" /\ e.args = 1 /\ e.c = "normal" /\ e.ran > 0
  /\ \E e \in CallEvents : e.callee.k = "class" /\ e.args = 0 /\ e.c = "normal"
  /\ \E e \in CallEvents : e.callee.k = "clock" /\ e.c = "normal"

\* The property reads and the property writes recorded so far.
PropertyEvents(ev) == {e \in Events : e.ev = ev}

\* The method `name` of a class: its own, or else that of the nearest
\* superclass that declares one; NilV for none.
RECURSIVE MethodOf(_, _)
MethodOf(klass, name) ==
  IF name \in DOMAIN klass.methods THEN klass.methods[name]
  ELSE IF klass.superClass.k = "class" THEN MethodOf(klass.superClass, name)
  ELSE NilV

\* `value` is `method` bound to `object` in the frames `envs`.
IsBound(value, method, object, envs) ==
  /\ value.k = "fun"
  /\ value.declaration = method.declaration
  /\ envs[value.environment].enclosing = method.environment
  /\ "this" \in DOMAIN envs[value.environment].values
  /\ envs[value.environment].values["this"] = object

\* What the claim says of one read of a property.
GetAsClaimed(e) ==
  IF e.object.k # "instance"
    THEN /\ e.c = "RuntimeError"
         /\ e.message = "Can not access property from a non-instance value."
  ELSE IF e.name \in DOMAIN e.before[e.object.ref].fields
    THEN e.c = "normal" /\ e.value = e.before[e.object.ref].fields[e.name]
  ELSE IF MethodOf(e.before[e.object.ref].klass, e.name) # NilV
    THEN /\ e.c = "normal"
         /\ IsBound(e.value, MethodOf(e.before[e.object.ref].klass, e.name),
                    e.object, e.envs)
  ELSE e.c = "RuntimeError"
         /\ e.message = "Undefined property " \o e.name \o "."

\* What the claim says of one write of a property.
SetAsClaimed(e) ==
  IF e.object.k # "instance"
    THEN e.c = "RuntimeError" /\ e.message = "Only objects have fields"
    ELSE /\ e.c = "normal"
         /\ e.name \in DOMAIN e.after[e.object.ref].fields
         /\ e.after[e.object.ref].fields[e.name] = e.value
         /\ DOMAIN e.after = DOMAIN e.before
         /\ \A i \in DOMAIN e.before :
              /\ e.after[i].klass = e.before[i].klass
              /\ i # e.object.ref => e.after[i] = e.before[i]
              /\ \A x \in DOMAIN e.before[i].fields \ {e.name} :
                   /\ x \in DOMAIN e.after[i].fields
                   /\ e.after[i].fields[x] = e.before[i].fields[x]

\* C21: a read of a property of an instance gives the field of that name
\* when one has been set, else the method of the class or of its
\* superclasses bound to the instance, else "Undefined property X."; a write
\* gives the value and changes that field of that instance alone; on a value
\* that is no instance a read raises "Can not access property from a
\* non-instance value." and a write "Only objects have fields".
C21_PropertyAccess ==
  /\ \A e \in PropertyEvents("get") : GetAsClaimed(e)
  /\ \A e \in PropertyEvents("set") : SetAsClaimed(e)

\* The nearest frame that defines `this`, from frame e outwards: the frame
\* that binds the method whose body is running; 0 for none.
RECURSIVE ThisFrame(_, _)
ThisFrame(envs, e) ==
  IF e = 0 THEN 0
  ELSE IF "this" \in DOMAIN envs[e].values THEN e
  ELSE ThisFrame(envs, envs[e].enclosing)

\* The superclass of the class that declared the running method: the
\* `super` of the frame in which the class made its methods, which encloses
\* the frame of `this`.
SuperOf(envs, e) ==
  envs[envs[ThisFrame(envs, e)].enclosing].values["super"]

\* What the claim says of one `super.m`.
SuperAsClaimed(e) ==
  IF SuperOf(e.before, e.environment).k = "class"
       /\ MethodOf(SuperOf(e.before, e.environment), e.name) # NilV
    THEN /\ e.c = "normal"
         /\ IsBound(e.value, MethodOf(SuperOf(e.before, e.environment), e.name),
                    e.before[ThisFrame(e.before, e.environment)].values["this"],
                    e.after)
    ELSE /\ e.c = "RuntimeError"
         /\ e.message = "Undefined method " \o e.name \o "."

\* C22: `super.m` in a method gives the `m` of the superclass of the class
\* that declared the method, or of the nearest class above it that has one,
\* bound to the current `this`, and raises "Undefined method m." when there
\* is none; with A, B < A and C < B, the method of B that calls `super.m()`
\* runs A's `m` on an instance of C with `this` the instance.
C22_SuperLookup ==
  /\ \A e \in PropertyEvents("super") :
       ThisFrame(e.before, e.environment) # 0 => SuperAsClaimed(e)
  /\ Ended /\ source = SrcSuperChain =>
       IsPrefix(<<"A", "C instance", "A", "B instance">>, stdout)

\* What the claim says of one bindInstance: the bound function is the same
\* function over a new frame, which encloses the frame the function had
\* captured and defines `this` only, and no frame that there was has changed.
BindAsClaimed(e) ==
  /\ e.bound.k = "fun"
  /\ e.bound.declaration = e.fun.declaration
  /\ e.bound.isInitializer = e.fun.isInitializer
  /\ e.bound.environment \notin DOMAIN e.before
  /\ e.bound.environment \in DOMAIN e.after
  /\ e.after[e.bound.environment].enclosing = e.fun.environment
  /\ DOMAIN e.after[e.bound.environment].values = {"this"}
  /\ e.after[e.bound.environment].values["this"] = e.instance
  /\ \A i \in DOMAIN e.before : e.after[i] = e.before[i]

\* The class statements with a `<` clause that have made a class with the
\* method whose declaration is `declaration`.
ClassesDeclaring(declaration) ==
  {c \in Events :
     /\ c.ev = "class" /\ c.c = "normal" /\ c.clause
     /\ \E i \in DOMAIN c.methods : c.methods[i] = declaration}

\* The frames from e outwards in envs are: any frame, one that defines
\* `this` only, the frame c.frame that defines `super` only, and the frame in
\* which the class statement c was executed.
ChainAsClaimed(envs, e, c) ==
  /\ DOMAIN envs[envs[e].enclosing].values = {"this"}
  /\ envs[envs[e].enclosing].enclosing = c.frame
  /\ DOMAIN envs[c.frame].values = {"super"}
  /\ envs[c.frame].enclosing = c.previous

\* C23: bindInstance yields a function over one new frame that defines
\* `this` only and encloses the frame of the unbound method, which it leaves
\* as it was; when the body of a method of a class declared with `<` starts to
\* run, its frame is enclosed by the frame of `this`, that by the frame of
\* `super`, and that by the frame in which the class statement was executed.
C23_BoundMethodFrames ==
  /\ \A e \in PropertyEvents("bind") : BindAsClaimed(e)
  /\ \A e \in PropertyEvents("enter") :
       ClassesDeclaring(e.fun.declaration) # {} =>
         \E c \in ClassesDeclaring(e.fun.declaration) :
           ChainAsClaimed(e.envs, e.environment, c)

\* A run has bound the methods of B, declared with `< A`, to instances of B
\* and of C, and has run them.
C23_Witness ==
  /\ source = SrcSuperChain
  /\ pc = "done"
  /\ \E e \in PropertyEvents("bind") : e.fun.declaration.name.lexeme = "t"
  /\ \E e \in PropertyEvents("enter") :
       /\ e.fun.declaration.name.lexeme = "t"
       /\ \E c \in ClassesDeclaring(e.fun.declaration) :
            c.name = "B" /\ ChainAsClaimed(e.envs, e.environment, c)

\* The Variable, Assign, This and Super nodes of a syntax tree, each with its
\* identity, its type and the name it uses.
RECURSIVE NodesOfExpr(_)
RECURSIVE NodesOfExprs(_)
RECURSIVE NodesOfStmt(_)
RECURSIVE NodesOfStmts(_)

NodesOfExpr(expr) ==
  CASE expr.type = "Variable" ->
         {[id |-> expr.id, type |-> "Variable", name |-> expr.name.lexeme]}
    [] expr.type = "Assign" ->
         {[id |-> expr.id, type |-> "Assign", name |-> expr.name.lexeme]}
           \cup NodesOfExpr(expr.expr)
    [] expr.type \in {"This", "Super"} ->
         {[id |-> expr.id, type |-> expr.type, name |-> expr.keyword.lexeme]}
    [] expr.type \in {"Binary", "Logical"} ->
         NodesOfExprs(<<expr.left, expr.right>>)
    [] expr.type \in {"Unary", "Grouping"} -> NodesOfExpr(expr.expr)
    [] expr.type = "Call" -> NodesOfExprs(<<expr.callee>> \o expr.args)
    [] expr.type = "Getter" -> NodesOfExpr(expr.object)
    [] expr.type = "Setter" -> NodesOfExprs(<<expr.object, expr.expr>>)
    [] OTHER -> {}

NodesOfExprs(exprs) ==
  IF exprs = <<>> THEN {}
  ELSE NodesOfExpr(Head(exprs)) \cup NodesOfExprs(Tail(exprs))

NodesOfStmt(stmt) ==
  CASE stmt.type \in {"Expression", "Print"} -> NodesOfExpr(stmt.expression)
    [] stmt.type = "Var" -> NodesOfExpr(stmt.initializer)
    [] stmt.type = "Return" -> NodesOfExpr(stmt.value)
    [] stmt.type = "Block" -> NodesOfStmts(stmt.statements)
    [] stmt.type = "While" ->
         NodesOfExpr(stmt.condition) \cup NodesOfStmts(<<stmt.body>>)
    [] stmt.type = "If" ->
         NodesOfExpr(stmt.condition) \cup NodesOfStmts(<<stmt.th, stmt.el>>)
    [] stmt.type = "Fun" -> NodesOfStmts(stmt.body)
    [] stmt.type = "Class" ->
         NodesOfExpr(stmt.superClass) \cup NodesOfStmts(stmt.methods)
    [] OTHER -> {}

NodesOfStmts(stmts) ==
  IF stmts = <<>> THEN {}
  ELSE NodesOfStmt(Head(stmts)) \cup NodesOfStmts(Tail(stmts))

\* The resolver has run over the program and has reported no error.
Resolved ==
  pc \in {"interpret", "exit", "done", "crashed", "unbounded"} /\ ~hadError

\* The calls of resolveLocal for node n.
ResolveLocalEvents(n) ==
  {e \in Events : /\ e.ev = "resolveLocal" /\ e.id = n.id
                  /\ e.type = n.type /\ e.name = n.name}

\* The scopes of `scopes` (counted from 1, the outermost) that declare name.
Declaring(scopes, name) ==
  {i \in DOMAIN scopes : name \in DOMAIN scopes[i]}

\* The innermost of the scopes `declaring`.
Innermost(declaring) == CHOOSE i \in declaring : \A j \in declaring : j <= i

\* C24: once the resolver has run without an error, every Variable, Assign,
\* This and Super node was resolved against the scopes of its use site: when
\* one of them declares its name the table has the node, with the number of
\* scopes between the innermost scope and the nearest declaring one as its
\* depth, and otherwise the table does not have it; the table has nothing else.
C24_ResolutionTable ==
  Resolved =>
    /\ \A n \in NodesOfStmts(statements) :
         /\ ResolveLocalEvents(n) # {}
         /\ \A e \in ResolveLocalEvents(n) :
              IF Declaring(e.scopes, n.name) # {}
                THEN /\ n.id \in DOMAIN interp.locals
                     /\ interp.locals[n.id] =
                          Len(e.scopes) - Innermost(Declaring(e.scopes, n.name))
                ELSE n.id \notin DOMAIN interp.locals
    /\ DOMAIN interp.locals \subseteq {n.id : n \in NodesOfStmts(statements)}

\* The resolver has run over a program that uses `super` four scopes out,
\* a variable two scopes out, `this` one scope out, a function of its own
\* scope, and global names.
C24_Witness ==
  /\ source = SrcResolve
  /\ pc = "done"
  /\ stdout = <<"B instance", "nil">>
  /\ \E n \in NodesOfStmts(statements) :
       n.type = "Super" /\ n.id \in DOMAIN interp.locals
         /\ interp.locals[n.id] = 4
  /\ \E n \in NodesOfStmts(statements) :
       n.type = "Assign" /\ n.id \in DOMAIN interp.locals
         /\ interp.locals[n.id] = 2
  /\ \E n \in NodesOfStmts(statements) :
       n.type = "This" /\ n.id \in DOMAIN interp.locals
         /\ interp.locals[n.id] = 1
  /\ \E n \in NodesOfStmts(statements) :
       n.name = "f" /\ n.id \in DOMAIN interp.locals /\ interp.locals[n.id] = 0
  /\ \E n \in NodesOfStmts(statements) :
       n.name = "g" /\ n.id \notin DOMAIN interp.locals

\* The evaluations of Variable, Assign, This and Super nodes that the
\* resolution table has.
ResolvedEvents ==
  {e \in Events : e.ev \in {"read", "assign", "super"} /\ e.resolved}

\* The name that a node looks up in the frames.
LookedUp(e) == IF e.ev = "super" THEN "super" ELSE e.name

\* C25: whenever a node that the resolution table has at depth d is
\* evaluated, the frame d links above the current one defines the node's
\* name; a read with an entry never yields undefined, and an assignment with
\* an entry changes no other frame.
C25_ScopesMatchFrames ==
  \A e \in ResolvedEvents :
    /\ FrameAt(e.before, e.environment, e.depth) # 0
    /\ LookedUp(e) \in
         DOMAIN e.before[FrameAt(e.before, e.environment, e.depth)].values
    /\ e.ev = "read" => e.c = "normal" /\ e.value.k # "undefined"
    /\ e.ev = "assign" =>
         TouchesOnly(FrameAt(e.before, e.environment, e.depth),
                     e.before, e.after)

\* Event k of the history is the return signal leaving a block.
Unwinding(k) ==
  interp.trace[k].ev = "executeBlock" /\ interp.trace[k].c = "return"

\* The `return` recorded as event i is caught by the call that ends as event
\* j: between the two the signal only leaves blocks, and the call completes
\* normally.
CaughtAt(i, j) ==
  /\ interp.trace[j].ev = "leave"
  /\ interp.trace[j].c = "return"
  /\ interp.trace[j].outcome = "normal"
  /\ \A k \in (i + 1)..(j - 1) : Unwinding(k)

\* The return signal is in flight only from a `return` statement to the end
\* of the nearest call: every block and every call it ends comes right after
\* the `return` or after another block it has ended.
SignalOnlyFromReturn ==
  \A k \in DOMAIN interp.trace :
    (Unwinding(k) \/ (interp.trace[k].ev = "leave"
                        /\ interp.trace[k].c = "return")) =>
      /\ k > 1
      /\ interp.trace[k - 1].ev = "return" \/ Unwinding(k - 1)

\* The return signal has not reached the top level.
NeverAtTopLevel ==
  \A i \in DOMAIN stderr : stderr[i] # "Uncaught ReturnException"

\* C26 as stated: every `return` ends the nearest enclosing call, and that
\* call yields the carried value; nothing else of the body runs, the caller
\* continues normally and the signal never reaches the top level.
C26_ReturnYieldsCarriedValue ==
  /\ \A i \in DOMAIN interp.trace :
       interp.trace[i].ev = "return" =>
         \E j \in (i + 1)..Len(interp.trace) :
           CaughtAt(i, j) /\ interp.trace[j].value = interp.trace[i].value
  /\ SignalOnlyFromReturn
  /\ NeverAtTopLevel

\* C26, amended: every `return` ends the nearest enclosing call, which
\* yields the carried value, or the instance when the function is an
\* initializer; nothing else of the body runs, the caller continues normally
\* and the signal never reaches the top level.
C26_ReturnEndsNearestCall ==
  /\ \A i \in DOMAIN interp.trace :
       interp.trace[i].ev = "return" =>
         \E j \in (i + 1)..Len(interp.trace) :
           /\ CaughtAt(i, j)
           /\ IF interp.trace[j].isInitializer
                THEN interp.trace[j].value.k = "instance"
                ELSE interp.trace[j].value = interp.trace[i].value
  /\ SignalOnlyFromReturn
  /\ NeverAtTopLevel

\* A run in which a `return` inside an `if`, a block and a `while` has ended
\* the call of f after two iterations, and the caller g has printed, returned
\* the value and left its last statement unexecuted.
C26_Witness ==
  /\ source = SrcReturnNested
  /\ pc = "done"
  /\ stdout = <<"2", "1", "after", "done", "nil">>
  /\ \E i \in DOMAIN interp.trace, j \in DOMAIN interp.trace :
       /\ interp.trace[i].ev = "return"
       /\ j > i + 3
       /\ CaughtAt(i, j)
       /\ interp.trace[j].value = StrV("done")

\* The statements and methods that the resolver has resolved.
ResolvedStatements == {e \in Events : e.ev = "resolved"}

\* The diagnostics of the resolver on SrcResolverRestore: the `return 1;` of
\* the initializer, the second `var a` of the block, and the `return` and the
\* `this` that follow the declarations at top level; none for the `return;`
\* after the function g in the method m, nor for the `return 2;` after the
\* class B in the function f.
RestoreDiagnostics ==
  <<"[line 2] Error at return: Can not return a value from an initializer.",
    "[line 6] Error at a: Variable with name a already declared in this scope.",
    "[line 7] Error at return: Can not return from top-level code.",
    "[line 8] Error at this: Invalid use of keyword \"this\" outside of a class.">>

\* C27: resolving a statement or a method, with or without errors, leaves
\* currentFunction, currentClass and the depth of the scope stack as they
\* were before it, so that what the resolver reports for a `return` or a
\* `this` after a function or class declaration is what the enclosing
\* function and class make of it.
C27_ResolverSaveRestore ==
  /\ \A e \in ResolvedStatements : e.after = e.before
  /\ (source = SrcResolverRestore /\ pc \in {"exit", "done"}) =>
       stderr = RestoreDiagnostics
  /\ (source = SrcReturnAfterClass /\ pc \in {"interpret", "exit", "done"}) =>
       ~hadError

\* The resolver has resolved, inside functions and classes, statements and
\* methods with and without errors, among them a function in a method, a
\* class in a function and an initializer.
C27_Witness ==
  /\ source = SrcResolverRestore
  /\ pc = "done"
  /\ exitCode = 65
  /\ \E e \in ResolvedStatements :
       e.type = "Method" /\ e.errors # <<>> /\ e.before.currentClass = "SUBCLASS"
  /\ \E e \in ResolvedStatements :
       e.type = "Fun" /\ e.before.currentFunction = "METHOD"
  /\ \E e \in ResolvedStatements :
       e.type = "Class" /\ e.before.currentFunction = "FUNCTION"
  /\ \E e \in ResolvedStatements :
       e.type = "Block" /\ e.errors # <<>> /\ e.before.depth = 0
  /\ \E e \in ResolvedStatements :
       e.type = "Return" /\ e.before.currentFunction = "INITIALIZER"

\* The reads of a variable inside its own initializer, for the `var`
\* statements of stmts in a scope that is not the global one (local tells
\* whether stmts are in such a scope): the identities of the Variable nodes.
RECURSIVE OwnInitializerReads(_, _)
OwnInitializerReads(stmts, local) ==
  IF stmts = <<>> THEN {}
  ELSE OwnInitializerReads(Tail(stmts), local) \cup
       LET stmt == Head(stmts)
       IN  CASE stmt.type = "Var" ->
                  IF local
                    THEN {n.id : n \in
                            {m \in NodesOfExpr(stmt.initializer) :
                               /\ m.type = "Variable"
                               /\ m.name = stmt.name.lexeme}}
                    ELSE {}
             [] stmt.type = "Block" -> OwnInitializerReads(stmt.statements, TRUE)
             [] stmt.type = "Fun" -> OwnInitializerReads(stmt.body, TRUE)
             [] stmt.type = "Class" -> OwnInitializerReads(stmt.methods, TRUE)
             [] stmt.type = "While" -> OwnInitializerReads(<<stmt.body>>, local)
             [] stmt.type = "If" ->
                  OwnInitializerReads(<<stmt.th, stmt.el>>, local)
             [] OTHER -> {}

\* The reads of variables that the resolver has visited.
ResolvedReads == {e \in Events : e.ev = "resolvedRead"}

\* The line that the resolver writes for the read e in its own initializer.
OwnInitializerError(e) ==
  reportError(e.line, " at " \o e.name,
              "Can not read local variable in its own initializer")

\* The resolver has run.
ResolverRan ==
  pc \notin {"lex", "parse", "resolve"} /\ \E e \in Events : e.ev = "resolved"

\* C28: the resolver reports "Can not read local variable in its own
\* initializer" for every read of x in the initializer of a `var x` that is in
\* no global scope, also when an enclosing scope defines x, and for no other
\* read; the program is then not executed.
C28_OwnInitializer ==
  ResolverRan =>
    /\ \A id \in OwnInitializerReads(statements, FALSE) :
         \E e \in ResolvedReads : e.id = id
    /\ \A e \in ResolvedReads :
         IF e.id \in OwnInitializerReads(statements, FALSE)
           THEN e.errors = <<OwnInitializerError(e)>>
           ELSE e.errors = <<>>
    /\ OwnInitializerReads(statements, FALSE) # {} =>
         /\ hadError
         /\ index = 0
         /\ pc = "done" => exitCode = 65

\* The resolver has reported the two reads of `a` in the initializer of an
\* inner `var a` whose enclosing block defines `a`, and the read of `q` in
\* the initializer of `var q` in a function, and no read after them.
C28_Witness ==
  /\ source = SrcOwnInitializers
  /\ pc = "done"
  /\ exitCode = 65
  /\ Cardinality(OwnInitializerReads(statements, FALSE)) = 3
  /\ Len(stderr) = 3
  /\ Cardinality({e \in ResolvedReads : e.errors = <<>>}) = 6

\* ------------------------------------------------- the parser on its own
\* The parser is handed any token sequence that ends with EOF, whatever the
\* source it was scanned from: each token stands on a line of its own.

\* The longest token sequence, EOF not counted.
MaxTokens == 4

\* The kinds of token the sequences are made of.
ParsedTypes == {"PRINT", "VAR", "IDENTIFIER", "EQUAL", "NUMBER", "SEMICOLON",
                "LEFT_BRACE", "RIGHT_BRACE"}

\* The lexeme the lexer gives a token of each kind.
LexemeOf(type) ==
  CASE type = "PRINT" -> "print"
    [] type = "VAR" -> "var"
    [] type = "IDENTIFIER" -> "a"
    [] type = "EQUAL" -> "="
    [] type = "NUMBER" -> "1"
    [] type = "SEMICOLON" -> ";"
    [] type = "LEFT_BRACE" -> "{"
    [] type = "RIGHT_BRACE" -> "}"

\* The tokens of a sequence of kinds, and the EOF token that scanTokens adds.
TokensOf(types) ==
  [i \in 1..(Len(types) + 1) |->
     IF i > Len(types)
       THEN [type |-> "EOF", lexeme |-> "end", literal |-> NilV, line |-> i]
       ELSE [type |-> types[i], lexeme |-> LexemeOf(types[i]),
             literal |-> IF types[i] = "NUMBER" THEN NumV(1) ELSE NilV,
             line |-> i]]

TokenSequences ==
  UNION {{TokensOf(types) : types \in [1..n -> ParsedTypes]} : n \in 0..MaxTokens}

ParseInit ==
  /\ source = <<>>
  /\ pc = "parse"
  /\ lexer = NewLexer
  /\ tokens \in TokenSequences
  /\ statements = <<>>
  /\ interp = NewInterpreter
  /\ index = 0
  /\ lastValue = UndefinedV
  /\ hadError = FALSE
  /\ hadRuntimeError = FALSE
  /\ stdout = <<>>
  /\ stderr = <<>>
  /\ exitCode = -1

ParseNext == Parse

ParseSpec == ParseInit /\ [][ParseNext]_vars

\* What the parser has recorded, in order.
ParserTrace == SelectSeq(interp.trace,
                         LAMBDA e : e.ev \in {"error", "synchonize", "declaration"})

\* Where synchonize may stop: at EOF, just after a `;`, or just before one of
\* class fun var for if while print return.
StopsAt(to) ==
  \/ tokens[to + 1].type = "EOF"
  \/ to >= 1 /\ tokens[to].type = "SEMICOLON"
  \/ tokens[to + 1].type \in
       {"CLASS", "FUN", "VAR", "FOR", "IF", "WHILE", "PRINT", "RETURN"}

\* No place synchonize passed over was one where it may stop.
StopsFirst(from, to) ==
  \A k \in (from + 1)..(to - 1) : ~StopsAt(k)

\* The synchonize at place i of what the parser recorded follows the error
\* that was thrown, consumes the offending token unless it is EOF, stops where
\* it may and no later, and declaration() returns from there.
SynchonizeAsClaimed(t, i) ==
  /\ i > 1 /\ t[i - 1].ev = "error"
  /\ t[i - 1].current = t[i].from
  /\ t[i - 1].token = tokens[t[i].from + 1]
  /\ IF t[i - 1].token.type = "EOF" THEN t[i].to = t[i].from
                                    ELSE t[i].to > t[i].from
  /\ StopsAt(t[i].to)
  /\ StopsFirst(t[i].from, t[i].to)
  /\ i < Len(t) /\ t[i + 1].ev = "declaration"
  /\ t[i + 1].caught /\ t[i + 1].start <= t[i].from /\ t[i + 1].end = t[i].to

\* The declaration() at place i of what the parser recorded consumed a token
\* or was made at EOF, and it caught an error exactly when it synchonized.
DeclarationAsClaimed(t, i) ==
  /\ t[i].end > t[i].start \/ tokens[t[i].start + 1].type = "EOF"
  /\ t[i].end < Len(tokens)
  /\ t[i].caught <=> (i > 1 /\ t[i - 1].ev = "synchonize")

\* parse() has returned with every token but EOF consumed: the last thing the
\* parser recorded is the return of the last declaration() of its loop, at EOF.
ParsedToEnd(t) ==
  \/ Len(tokens) = 1 /\ t = <<>>
  \/ /\ t # <<>> /\ t[Len(t)].ev = "declaration"
     /\ t[Len(t)].end = Len(tokens) - 1

\* C29: Parser.parse terminates on every token sequence that ends with EOF:
\* parse() returns at EOF after no more calls of declaration() than there are
\* tokens, each call of declaration() consumes at least one token or is made
\* at EOF, and after a parse error synchonize consumes at least the offending
\* token (unless it is EOF) and stops just after a `;`, just before one of
\* class fun var for if while print return, or at EOF, where declaration()
\* returns and parsing resumes.
C29_ParseTerminates ==
  /\ pc \notin {"lex", "parse", "lexer loops"} => ParsedToEnd(ParserTrace)
  /\ Len(SelectSeq(ParserTrace, LAMBDA e : e.ev = "declaration")) < Len(tokens)
       \/ tokens = <<>>
  /\ \A i \in DOMAIN ParserTrace :
       /\ ParserTrace[i].ev = "synchonize" => SynchonizeAsClaimed(ParserTrace, i)
       /\ ParserTrace[i].ev = "declaration" => DeclarationAsClaimed(ParserTrace, i)

\* Some parse synchonized after an error that was not at EOF, passed over a
\* token besides the offending one and stopped just before a keyword, not
\* after a `;`; the next call of declaration() began there and consumed tokens.
C29_Witness ==
  /\ pc # "parse"
  /\ \E i, j \in DOMAIN ParserTrace :
       /\ ParserTrace[i].ev = "synchonize"
       /\ ParserTrace[i].to > ParserTrace[i].from + 1
       /\ tokens[ParserTrace[i].to].type # "SEMICOLON"
       /\ tokens[ParserTrace[i].to + 1].type \in {"VAR", "PRINT"}
       /\ j > i
       /\ ParserTrace[j].ev = "declaration"
       /\ ParserTrace[j].start = ParserTrace[i].to
       /\ ParserTrace[j].end > ParserTrace[j].start

====
